---- MODULE Spec2Model ----
(***************************************************************************)
(* Neurologix Smart Search: the query interpretation and response          *)
(* synthesis pipeline (backend/services/query_processor.py) together with  *)
(* the data access gateway it calls (backend/services/database_service.py) *)
(* and the classification schema (backend/models/schemas.py).              *)
(*                                                                         *)
(* Conventions.                                                            *)
(*  - Python str is a TLA+ string; a character is a string of length 1.    *)
(*  - Optional[T] is a sequence of length 0 (None) or 1 (the value).       *)
(*  - A float is an integer number of hundredths where it is a fixed       *)
(*    constant (confidence 0.8 is 80), and an exact fraction num/den       *)
(*    where it is computed (the aggregates).                               *)
(*  - A datetime is a record [day, hour, minute, second, microsecond],     *)
(*    day being the proleptic ordinal of the date.                         *)
(***************************************************************************)
EXTENDS Integers, Sequences, FiniteSets, TLC

(***************************************************************************)
(* Bounds of the model.                                                    *)
(***************************************************************************)
\* longest question, in words of Vocabulary, that the classifier is given
MaxWords == 3
\* most rows of one assessment table in the store
MaxRows == 2
\* most records of a list handed to an aggregator called on its own
MaxRecords == 3
\* most results of a list handed to _generate_response called on its own
MaxResults == 2

(***************************************************************************)
(* Python values.                                                          *)
(***************************************************************************)
None == <<>>
Some(x) == <<x>>
IsNone(o) == o = <<>>

\* bool(s) of an Optional[str]: None and "" are falsy
TruthyStr(o) == o # <<>> /\ o[1] # ""

\* `a or b` on Optional[str] operands
OrElse(a, b) == IF TruthyStr(a) THEN a ELSE b

(***************************************************************************)
(* Strings: the operations of str and of the re module that the           *)
(* classifier uses.                                                        *)
(***************************************************************************)
Char(s, i) == SubSeq(s, i, i)

\* `k in s` for strings: k occurs as a contiguous substring of s
Contains(s, k) ==
    \E i \in 1..(Len(s) - Len(k) + 1) : SubSeq(s, i, i + Len(k) - 1) = k

UpperLetters == "ABCDEFGHIJKLMNOPQRSTUVWXYZ"
LowerLetters == "abcdefghijklmnopqrstuvwxyz"

UpperSet == { Char(UpperLetters, i) : i \in 1..Len(UpperLetters) }
LowerSet == { Char(LowerLetters, i) : i \in 1..Len(LowerLetters) }
DigitSet == { "0", "1", "2", "3", "4", "5", "6", "7", "8", "9" }

IsUpper(c) == c \in UpperSet
IsLower(c) == c \in LowerSet
IsDigit(c) == c \in DigitSet
\* \w of the re module (ASCII questions)
IsWordChar(c) == c \in UpperSet \/ c \in LowerSet \/ c \in DigitSet \/ c = "_"

LowerChar(c) ==
    IF IsUpper(c)
    THEN Char(LowerLetters, CHOOSE i \in 1..Len(UpperLetters) : Char(UpperLetters, i) = c)
    ELSE c

\* str.lower()
RECURSIVE Lower(_)
Lower(s) == IF s = "" THEN "" ELSE LowerChar(Char(s, 1)) \o Lower(Tail(s))

\* \b at the gap before position i (1..Len(s)+1): exactly one side is \w
WordBoundary(s, i) ==
    LET before == i > 1 /\ IsWordChar(Char(s, i - 1))
        after  == i <= Len(s) /\ IsWordChar(Char(s, i))
    IN  before # after

\* the literal k occurs in s starting at position i
LiteralAt(s, i, k) == i + Len(k) - 1 <= Len(s) /\ SubSeq(s, i, i + Len(k) - 1) = k

\* end (position after the last character) of the longest run of [a-z]
\* starting at i; i itself when there is none
RECURSIVE LowerRunEnd(_, _)
LowerRunEnd(s, i) ==
    IF i <= Len(s) /\ IsLower(Char(s, i)) THEN LowerRunEnd(s, i + 1) ELSE i

\* n digits start at position i
DigitsAt(s, i, n) ==
    i + n - 1 <= Len(s) /\ \A j \in i..(i + n - 1) : IsDigit(Char(s, j))

(***************************************************************************)
(* backend/models/schemas.py                                               *)
(***************************************************************************)
SYMPTOM_CHECKLIST == "symptom_checklist"
REACTION_TIME == "reaction_time"
AssessmentType == {SYMPTOM_CHECKLIST, REACTION_TIME, "baseline", "post_injury"}

\* time_range values: None, {"period": p} or {"custom_dates": [(m, d, y), ...]}
PeriodRange(p) == Some([keys |-> {"period"}, period |-> p, custom_dates |-> <<>>])
CustomDatesRange(ds) == Some([keys |-> {"custom_dates"}, period |-> "", custom_dates |-> ds])

\* The constructor of ReactionTimeData: the Field constraints pydantic
\* checks (ge=1 on total_attempts, ge=0 on successful_attempts, ge=0 and
\* le=100 on accuracy_percentage; none on the three reaction times).
\* valid = FALSE is a raised ValidationError.
ReactionTimeData(average_reaction_time, best_reaction_time, worst_reaction_time, total_attempts, successful_attempts, accuracy_percentage) ==
    [valid |-> /\ total_attempts >= 1
               /\ successful_attempts >= 0
               /\ accuracy_percentage >= 0 /\ accuracy_percentage <= 100,
     average_reaction_time |-> average_reaction_time,
     best_reaction_time |-> best_reaction_time,
     worst_reaction_time |-> worst_reaction_time,
     total_attempts |-> total_attempts,
     successful_attempts |-> successful_attempts,
     accuracy_percentage |-> accuracy_percentage]

\* Optional[Dict[str, str]]: every value of the mapping has to be a str; the
\* value stored under "custom_dates" is a list of tuples
TimeRangeIsDictStrStr(tr) == IsNone(tr) \/ "custom_dates" \notin tr[1].keys

\* The constructor of QueryClassification: the field validation pydantic runs.
\* valid = FALSE is a raised ValidationError.
QueryClassification(intent, modules, metrics, filters, time_range, confidence) ==
    [valid |-> /\ \A i \in 1..Len(modules) : modules[i] \in AssessmentType
               /\ TimeRangeIsDictStrStr(time_range)
               /\ confidence >= 0 /\ confidence <= 100,
     intent |-> intent, modules |-> modules, metrics |-> metrics,
     filters |-> filters, time_range |-> time_range, confidence |-> confidence]

(***************************************************************************)
(* QueryProcessor.__init__: the keyword tables (dicts keep insertion       *)
(* order, so a table is a sequence of entries).                            *)
(***************************************************************************)
symptom_keywords ==
    <<"headache", "nausea", "dizziness", "confusion", "memory",
      "emotional", "symptom", "symptoms", "pain", "score">>

reaction_time_keywords ==
    <<"reaction", "time", "speed", "cognitive", "response",
      "accuracy", "performance", "test">>

aggregation_keywords ==
    << [name |-> "average", keywords |-> <<"average", "avg", "mean">>],
       [name |-> "maximum", keywords |-> <<"max", "maximum", "highest", "worst">>],
       [name |-> "minimum", keywords |-> <<"min", "minimum", "lowest", "best">>],
       [name |-> "count",   keywords |-> <<"count", "number", "how many">>],
       [name |-> "list",    keywords |-> <<"list", "show", "display", "who">>] >>

time_patterns ==
    << [name |-> "last_week",    keywords |-> <<"last week", "past week">>],
       [name |-> "last_month",   keywords |-> <<"last month", "past month">>],
       [name |-> "last_30_days", keywords |-> <<"last 30 days", "past 30 days">>],
       [name |-> "today",        keywords |-> <<"today", "today's">>],
       [name |-> "yesterday",    keywords |-> <<"yesterday">>] >>

\* any(keyword in question for keyword in keywords)
AnyKeywordIn(question, keywords) ==
    \E i \in 1..Len(keywords) : Contains(question, keywords[i])

\* for name, keywords in table.items(): if any(...): return name
\* the index of the first entry from i on that matches, 0 when none does
RECURSIVE FirstMatchingFrom(_, _, _)
FirstMatchingFrom(table, question, i) ==
    IF i > Len(table) THEN 0
    ELSE IF AnyKeywordIn(question, table[i].keywords) THEN i
    ELSE FirstMatchingFrom(table, question, i + 1)

FirstMatchingEntry(table, question) == FirstMatchingFrom(table, question, 1)

InSeq(x, seq) == \E i \in 1..Len(seq) : seq[i] = x

\* _determine_intent with the secondary patterns tested before the
\* aggregation table
_determine_intent_SecondaryFirst(question) ==
    LET i == FirstMatchingEntry(aggregation_keywords, question)
    IN  IF Contains(question, "compare") \/ Contains(question, "vs") THEN "compare"
        ELSE IF Contains(question, "trend") \/ Contains(question, "over time") THEN "trend"
        ELSE IF Contains(question, "alert") \/ Contains(question, "concern") THEN "alert"
        ELSE IF i > 0 THEN aggregation_keywords[i].name
        ELSE "summary"

(***************************************************************************)
(* QueryProcessor._determine_intent                                        *)
(***************************************************************************)
_determine_intent(question) ==
    LET i == FirstMatchingEntry(aggregation_keywords, question)
    IN  IF i > 0 THEN aggregation_keywords[i].name
        ELSE IF Contains(question, "compare") \/ Contains(question, "vs") THEN "compare"
        ELSE IF Contains(question, "trend") \/ Contains(question, "over time") THEN "trend"
        ELSE IF Contains(question, "alert") \/ Contains(question, "concern") THEN "alert"
        ELSE "summary"

\* _extract_metrics without the default of line 112-113
_extract_metrics_NoReactionDefault(question, modules) ==
    LET s1 == IF Contains(question, "headache") THEN <<"headache_severity">> ELSE <<>>
        s2 == IF Contains(question, "total") /\ Contains(question, "score")
              THEN Append(s1, "total_symptom_score") ELSE s1
        s3 == IF s2 = <<>> THEN <<"total_symptom_score", "headache_severity">> ELSE s2
        m1 == IF InSeq("symptom_checklist", modules) THEN s3 ELSE <<>>
        r1 == IF Contains(question, "accuracy") THEN Append(m1, "accuracy_percentage") ELSE m1
        r2 == IF Contains(question, "reaction") /\ Contains(question, "time")
              THEN Append(r1, "average_reaction_time") ELSE r1
    IN  IF InSeq("reaction_time", modules) THEN r2 ELSE m1

(***************************************************************************)
(* QueryProcessor._extract_metrics                                         *)
(***************************************************************************)
_extract_metrics(question, modules) ==
    LET s1 == IF Contains(question, "headache") THEN <<"headache_severity">> ELSE <<>>
        s2 == IF Contains(question, "total") /\ Contains(question, "score")
              THEN Append(s1, "total_symptom_score") ELSE s1
        s3 == IF s2 = <<>> THEN <<"total_symptom_score", "headache_severity">> ELSE s2
        m1 == IF InSeq(SYMPTOM_CHECKLIST, modules) THEN s3 ELSE <<>>
        r1 == IF Contains(question, "accuracy") THEN Append(m1, "accuracy_percentage") ELSE m1
        r2 == IF Contains(question, "reaction") /\ Contains(question, "time")
              THEN Append(r1, "average_reaction_time") ELSE r1
        r3 == IF ~(\E i \in 1..Len(r2) : Contains(r2[i], "reaction"))
              THEN Append(r2, "average_reaction_time") ELSE r2
    IN  IF InSeq(REACTION_TIME, modules) THEN r3 ELSE m1

(***************************************************************************)
(* QueryProcessor._extract_time_range                                      *)
(***************************************************************************)
\* one match of \b(\d{1,2})/(\d{1,2})/(\d{4})\b starting at position i, as
\* [end, groups]; end = 0 when the pattern does not match there.  The month
\* and day lengths are tried longest first, as the greedy {1,2} does.
DateMatchAt(s, i) ==
    LET try(a, b) ==
            /\ DigitsAt(s, i, a)
            /\ WordBoundary(s, i)
            /\ LiteralAt(s, i + a, "/")
            /\ DigitsAt(s, i + a + 1, b)
            /\ LiteralAt(s, i + a + 1 + b, "/")
            /\ DigitsAt(s, i + a + b + 2, 4)
            /\ WordBoundary(s, i + a + b + 6)
        res(a, b) == [end |-> i + a + b + 6,
                      groups |-> << SubSeq(s, i, i + a - 1),
                                    SubSeq(s, i + a + 1, i + a + b),
                                    SubSeq(s, i + a + b + 2, i + a + b + 5) >>]
    IN  IF try(2, 2) THEN res(2, 2)
        ELSE IF try(2, 1) THEN res(2, 1)
        ELSE IF try(1, 2) THEN res(1, 2)
        ELSE IF try(1, 1) THEN res(1, 1)
        ELSE [end |-> 0, groups |-> <<>>]

\* re.findall(date_pattern, question): the non-overlapping matches, left to right
RECURSIVE FindAllDates(_, _)
FindAllDates(s, i) ==
    IF i > Len(s) THEN <<>>
    ELSE LET m == DateMatchAt(s, i)
         IN  IF m.end > 0 THEN <<m.groups>> \o FindAllDates(s, m.end)
             ELSE FindAllDates(s, i + 1)

\* _extract_time_range with the date pattern tried before the period table
_extract_time_range_DatesFirst(question) ==
    LET i == FirstMatchingEntry(time_patterns, question)
        dates == FindAllDates(question, 1)
    IN  IF dates # <<>> THEN CustomDatesRange(dates)
        ELSE IF i > 0 THEN PeriodRange(time_patterns[i].name)
        ELSE None

_extract_time_range(question) ==
    LET i == FirstMatchingEntry(time_patterns, question)
        dates == FindAllDates(question, 1)
    IN  IF i > 0 THEN PeriodRange(time_patterns[i].name)
        ELSE IF dates # <<>> THEN CustomDatesRange(dates)
        ELSE None

(***************************************************************************)
(* QueryProcessor._extract_filters                                         *)
(***************************************************************************)
\* one match of \b(LSU|Tigers|[A-Z][a-z]+ [A-Z][a-z]+)\b starting at i: the
\* position after its last character, 0 when the pattern does not match
\* there.  The alternatives are tried in the order written.
TeamMatchEnd(s, i) ==
    LET e1 == LowerRunEnd(s, i + 1)
        e2 == LowerRunEnd(s, e1 + 2)
    IN  IF ~IsUpper(Char(s, i)) \/ ~WordBoundary(s, i) THEN 0
        ELSE IF LiteralAt(s, i, "LSU") /\ WordBoundary(s, i + 3) THEN i + 3
        ELSE IF LiteralAt(s, i, "Tigers") /\ WordBoundary(s, i + 6) THEN i + 6
        ELSE IF /\ e1 > i + 1
                /\ LiteralAt(s, e1, " ")
                /\ e1 + 1 <= Len(s) /\ IsUpper(Char(s, e1 + 1))
                /\ e2 > e1 + 2
                /\ WordBoundary(s, e2)
             THEN e2
        ELSE 0

\* re.findall(team_pattern, question)
RECURSIVE FindAllTeams(_, _)
FindAllTeams(s, i) ==
    IF i > Len(s) THEN <<>>
    ELSE LET e == TeamMatchEnd(s, i)
         IN  IF e > 0 THEN <<SubSeq(s, i, e - 1)>> \o FindAllTeams(s, e)
             ELSE FindAllTeams(s, i + 1)

\* _extract_filters with "moderate" tested before "severe"
_extract_filters_ModerateFirst(question) ==
    LET teams == FindAllTeams(question, 1)
    IN  [team |-> IF teams # <<>> THEN Some(teams[1]) ELSE None,
         min_severity |-> IF Contains(question, "moderate") THEN Some(2)
                          ELSE IF Contains(question, "severe") THEN Some(4)
                          ELSE None]

_extract_filters(question) ==
    LET teams == FindAllTeams(question, 1)
    IN  [team |-> IF teams # <<>> THEN Some(teams[1]) ELSE None,
         min_severity |-> IF Contains(question, "severe") THEN Some(4)
                          ELSE IF Contains(question, "moderate") THEN Some(2)
                          ELSE None]

(***************************************************************************)
(* QueryProcessor.classify_query                                           *)
(***************************************************************************)
\* confidence=0.8, in hundredths
CONFIDENCE == 80

\* DetectModules without the default of lines 55-56
DetectModulesNoDefault(question_lower) ==
    LET m1 == IF AnyKeywordIn(question_lower, symptom_keywords)
              THEN <<SYMPTOM_CHECKLIST>> ELSE <<>>
    IN  IF AnyKeywordIn(question_lower, reaction_time_keywords)
        THEN Append(m1, REACTION_TIME) ELSE m1

\* lines 47-56: the modules of a lower-cased question
DetectModules(question_lower) ==
    LET m1 == IF AnyKeywordIn(question_lower, symptom_keywords)
              THEN <<SYMPTOM_CHECKLIST>> ELSE <<>>
        m2 == IF AnyKeywordIn(question_lower, reaction_time_keywords)
              THEN Append(m1, REACTION_TIME) ELSE m1
    IN  IF m2 = <<>> THEN <<SYMPTOM_CHECKLIST, REACTION_TIME>> ELSE m2

classify_query(question) ==
    LET question_lower == Lower(question)
        modules == DetectModules(question_lower)
    IN  QueryClassification(_determine_intent(question_lower),
                            modules,
                            _extract_metrics(question_lower, modules),
                            _extract_filters(question_lower),
                            _extract_time_range(question_lower),
                            CONFIDENCE)

(***************************************************************************)
(* datetime and timedelta                                                  *)
(***************************************************************************)
Dt(d, h, m, sec, us) ==
    [day |-> d, hour |-> h, minute |-> m, second |-> sec, microsecond |-> us]

\* a < b on datetimes
DtLess(a, b) ==
    \/ a.day < b.day
    \/ a.day = b.day /\ a.hour < b.hour
    \/ a.day = b.day /\ a.hour = b.hour /\ a.minute < b.minute
    \/ a.day = b.day /\ a.hour = b.hour /\ a.minute = b.minute /\ a.second < b.second
    \/ /\ a.day = b.day /\ a.hour = b.hour /\ a.minute = b.minute /\ a.second = b.second
       /\ a.microsecond < b.microsecond

DtLeq(a, b) == a = b \/ DtLess(a, b)

\* dt - timedelta(days=n)
MinusDays(dt, n) == [dt EXCEPT !.day = @ - n]

\* dt.replace(hour=h, minute=m, second=sec): the microsecond is kept
ReplaceHMS(dt, h, m, sec) == [dt EXCEPT !.hour = h, !.minute = m, !.second = sec]

\* the readings datetime.now() can give
Clock == { Dt(100, 14, 30, 15, 250000), Dt(100, 0, 0, 0, 0) }

(***************************************************************************)
(* QueryProcessor._convert_time_range, with the reading of datetime.now()  *)
(* as a parameter                                                          *)
(***************************************************************************)
NoWindow == [start |-> None, end |-> None]

\* _convert_time_range with last_month taken as 31 days
_convert_time_range_Month31(time_range, now) ==
    IF IsNone(time_range) \/ time_range[1].keys = {} THEN NoWindow
    ELSE IF "period" \in time_range[1].keys
    THEN LET period == time_range[1].period
             yesterday == MinusDays(now, 1)
         IN  IF period = "last_week"
             THEN [start |-> Some(MinusDays(now, 7)), end |-> Some(now)]
             ELSE IF period = "last_month"
             THEN [start |-> Some(MinusDays(now, 31)), end |-> Some(now)]
             ELSE IF period = "last_30_days"
             THEN [start |-> Some(MinusDays(now, 30)), end |-> Some(now)]
             ELSE IF period = "today"
             THEN [start |-> Some(ReplaceHMS(now, 0, 0, 0)), end |-> Some(now)]
             ELSE IF period = "yesterday"
             THEN [start |-> Some(ReplaceHMS(yesterday, 0, 0, 0)),
                   end |-> Some(ReplaceHMS(yesterday, 23, 59, 59))]
             ELSE NoWindow
    ELSE NoWindow

\* _convert_time_range with the two ends of today exchanged
_convert_time_range_TodaySwapped(time_range, now) ==
    IF IsNone(time_range) \/ time_range[1].keys = {} THEN NoWindow
    ELSE IF "period" \in time_range[1].keys
    THEN LET period == time_range[1].period
             yesterday == MinusDays(now, 1)
         IN  IF period = "last_week"
             THEN [start |-> Some(MinusDays(now, 7)), end |-> Some(now)]
             ELSE IF period = "last_month"
             THEN [start |-> Some(MinusDays(now, 30)), end |-> Some(now)]
             ELSE IF period = "last_30_days"
             THEN [start |-> Some(MinusDays(now, 30)), end |-> Some(now)]
             ELSE IF period = "today"
             THEN [start |-> Some(now), end |-> Some(ReplaceHMS(now, 0, 0, 0))]
             ELSE IF period = "yesterday"
             THEN [start |-> Some(ReplaceHMS(yesterday, 0, 0, 0)),
                   end |-> Some(ReplaceHMS(yesterday, 23, 59, 59))]
             ELSE NoWindow
    ELSE NoWindow

_convert_time_range(time_range, now) ==
    IF IsNone(time_range) \/ time_range[1].keys = {} THEN NoWindow
    ELSE IF "period" \in time_range[1].keys
    THEN LET period == time_range[1].period
             yesterday == MinusDays(now, 1)
         IN  IF period = "last_week"
             THEN [start |-> Some(MinusDays(now, 7)), end |-> Some(now)]
             ELSE IF period = "last_month"
             THEN [start |-> Some(MinusDays(now, 30)), end |-> Some(now)]
             ELSE IF period = "last_30_days"
             THEN [start |-> Some(MinusDays(now, 30)), end |-> Some(now)]
             ELSE IF period = "today"
             THEN [start |-> Some(ReplaceHMS(now, 0, 0, 0)), end |-> Some(now)]
             ELSE IF period = "yesterday"
             THEN [start |-> Some(ReplaceHMS(yesterday, 0, 0, 0)),
                   end |-> Some(ReplaceHMS(yesterday, 23, 59, 59))]
             ELSE NoWindow
    ELSE NoWindow

(***************************************************************************)
(* The store behind DatabaseService: the patients table and the rows the   *)
(* two assessment tables can hold.                                         *)
(***************************************************************************)
patients ==
    { [patient_id |-> "P001", team_id |-> "LSU_TIGERS"],
      [patient_id |-> "P002", team_id |-> "LSU_TIGERS"],
      [patient_id |-> "P003", team_id |-> "DEMO_TEAM"] }

SymptomRows ==
    { [id |-> "S001", patient_id |-> "P001", assessment_date |-> Dt(95, 9, 0, 0, 0),
       headache_severity |-> 2, total_symptom_score |-> 35],
      [id |-> "S002", patient_id |-> "P002", assessment_date |-> Dt(99, 9, 0, 0, 0),
       headache_severity |-> 4, total_symptom_score |-> 78],
      [id |-> "S003", patient_id |-> "P003", assessment_date |-> Dt(60, 9, 0, 0, 0),
       headache_severity |-> 1, total_symptom_score |-> 15],
      \* a row another writer stored with values outside the declared ranges
      [id |-> "S004", patient_id |-> "P001", assessment_date |-> Dt(97, 9, 0, 0, 0),
       headache_severity |-> 9, total_symptom_score |-> 140] }

\* reaction times and accuracies are floats; the rows hold whole values
ReactionRows ==
    { [id |-> "R001", patient_id |-> "P001", assessment_date |-> Dt(95, 10, 0, 0, 0),
       average_reaction_time |-> 245, accuracy_percentage |-> 94],
      [id |-> "R002", patient_id |-> "P002", assessment_date |-> Dt(99, 10, 0, 0, 0),
       average_reaction_time |-> 298, accuracy_percentage |-> 84],
      [id |-> "R003", patient_id |-> "P003", assessment_date |-> Dt(60, 10, 0, 0, 0),
       average_reaction_time |-> 310, accuracy_percentage |-> 77] }

\* the tables a store can hold: at most MaxRows rows each
Tables(rows) == { t \in SUBSET rows : Cardinality(t) <= MaxRows }

\* ORDER BY assessment_date DESC (the rows of a table have distinct dates)
RECURSIVE OrderByDateDesc(_)
OrderByDateDesc(rows) ==
    IF rows = {} THEN <<>>
    ELSE LET latest == CHOOSE r \in rows :
                          \A o \in rows : DtLeq(o.assessment_date, r.assessment_date)
         IN  <<latest>> \o OrderByDateDesc(rows \ {latest})

\* the SELECT of get_symptom_data / get_reaction_time_data: the join with
\* patients and one AND clause per truthy argument
SelectRows(table, patient_id, team_id, date_from, date_to) ==
    OrderByDateDesc(
      { r \in table :
          /\ \E p \in patients :
                /\ p.patient_id = r.patient_id
                /\ TruthyStr(team_id) => p.team_id = team_id[1]
          /\ TruthyStr(patient_id) => r.patient_id = patient_id[1]
          /\ ~IsNone(date_from) => DtLeq(date_from[1], r.assessment_date)
          /\ ~IsNone(date_to) => DtLeq(r.assessment_date, date_to[1]) })

get_symptom_data(table, patient_id, team_id, date_from, date_to) ==
    SelectRows(table, patient_id, team_id, date_from, date_to)

get_reaction_time_data(table, patient_id, team_id, date_from, date_to) ==
    SelectRows(table, patient_id, team_id, date_from, date_to)

(***************************************************************************)
(* DatabaseService.get_s3_assessment_data.  A bucket is a function from    *)
(* the keys it holds to blobs; a blob is its bytes: whether they are valid *)
(* UTF-8, and the text they decode to.  A parsed document is a set of      *)
(* <<key, value>> pairs.                                                   *)
(***************************************************************************)
Blob(utf8, text) == [utf8 |-> utf8, text |-> text]

\* json.loads(content): Some(document), None when it raises JSONDecodeError
JsonLoads(content) ==
    IF content = "{\"detailed_assessment\": \"test_data\"}"
    THEN Some({ <<"detailed_assessment", "test_data">> })
    ELSE IF content = "{\"trials\": \"12\"}" THEN Some({ <<"trials", "12">> })
    ELSE IF content = "{}" THEN Some({})
    ELSE None

\* the exceptions the try block can raise; all derive from Exception
S3Exceptions ==
    { "EndpointConnectionError", "NoSuchKey", "ReadTimeoutError",
      "UnicodeDecodeError", "JSONDecodeError" }

\* the try block of lines 113-120: the exception it raises, None when it
\* reaches the return.  fault is the failure of the transport during the
\* call: None, Some("get_object") or Some("read").
S3TryRaises(s3, s3_key, fault) ==
    IF fault = Some("get_object") THEN Some("EndpointConnectionError")
    ELSE IF s3_key \notin DOMAIN s3 THEN Some("NoSuchKey")
    ELSE IF fault = Some("read") THEN Some("ReadTimeoutError")
    ELSE IF ~s3[s3_key].utf8 THEN Some("UnicodeDecodeError")
    ELSE IF JsonLoads(s3[s3_key].text) = None THEN Some("JSONDecodeError")
    ELSE None

\* get_s3_assessment_data with a handler for the errors of the client only
get_s3_assessment_data_ClientErrorsOnly(s3, patient_id, assessment_type, fault) ==
    LET s3_key == "assessments/" \o patient_id \o "/" \o assessment_type
                  \o "/latest.json"
        e == S3TryRaises(s3, s3_key, fault)
    IN  IF e = None
        THEN [raised |-> None, value |-> JsonLoads(s3[s3_key].text)[1]]
        ELSE IF e[1] \in {"EndpointConnectionError", "NoSuchKey", "ReadTimeoutError"}
        THEN [raised |-> None, value |-> {}]
        ELSE [raised |-> e, value |-> {}]

\* the outcome of the call: the exception that leaves it (None when it
\* returns) and the value returned
get_s3_assessment_data(s3, patient_id, assessment_type, fault) ==
    LET s3_key == "assessments/" \o patient_id \o "/" \o assessment_type
                  \o "/latest.json"
        e == S3TryRaises(s3, s3_key, fault)
    IN  IF e = None
        THEN [raised |-> None, value |-> JsonLoads(s3[s3_key].text)[1]]
        ELSE IF e[1] \in S3Exceptions
        THEN [raised |-> None, value |-> {}]
        ELSE [raised |-> e, value |-> {}]

(***************************************************************************)
(* DatabaseService.calculate_symptom_metrics / _reaction_time_metrics.     *)
(* A metrics dict is a function from its keys to fractions.                *)
(***************************************************************************)
Frac(n, d) == [num |-> n, den |-> d]
Whole(n) == Frac(n, 1)

RECURSIVE SumOf(_, _)
SumOf(data, field) ==
    IF data = <<>> THEN 0 ELSE Head(data)[field] + SumOf(Tail(data), field)

MaxOf(data, field) ==
    LET vals == { data[i][field] : i \in 1..Len(data) }
    IN  CHOOSE v \in vals : \A w \in vals : w <= v

MinOf(data, field) ==
    LET vals == { data[i][field] : i \in 1..Len(data) }
    IN  CHOOSE v \in vals : \A w \in vals : v <= w

\* len(set(row['patient_id'] for row in data))
DistinctPatients(data) == Cardinality({ data[i].patient_id : i \in 1..Len(data) })

EmptyDict == <<>>

\* calculate_symptom_metrics counting records for patient_count
calculate_symptom_metrics_PatientPerRecord(data) ==
    IF data = <<>> THEN EmptyDict
    ELSE ("avg_total_symptom_score" :> Frac(SumOf(data, "total_symptom_score"), Len(data)))
      @@ ("max_total_symptom_score" :> Whole(MaxOf(data, "total_symptom_score")))
      @@ ("avg_headache_severity" :> Frac(SumOf(data, "headache_severity"), Len(data)))
      @@ ("patient_count" :> Whole(Len(data)))
      @@ ("assessment_count" :> Whole(Len(data)))

calculate_symptom_metrics(data) ==
    IF data = <<>> THEN EmptyDict
    ELSE ("avg_total_symptom_score" :> Frac(SumOf(data, "total_symptom_score"), Len(data)))
      @@ ("max_total_symptom_score" :> Whole(MaxOf(data, "total_symptom_score")))
      @@ ("avg_headache_severity" :> Frac(SumOf(data, "headache_severity"), Len(data)))
      @@ ("patient_count" :> Whole(DistinctPatients(data)))
      @@ ("assessment_count" :> Whole(Len(data)))

\* calculate_reaction_time_metrics with max and min exchanged
calculate_reaction_time_metrics_MinMaxSwapped(data) ==
    IF data = <<>> THEN EmptyDict
    ELSE ("avg_reaction_time" :> Frac(SumOf(data, "average_reaction_time"), Len(data)))
      @@ ("max_reaction_time" :> Whole(MinOf(data, "average_reaction_time")))
      @@ ("min_reaction_time" :> Whole(MaxOf(data, "average_reaction_time")))
      @@ ("avg_accuracy" :> Frac(SumOf(data, "accuracy_percentage"), Len(data)))
      @@ ("patient_count" :> Whole(DistinctPatients(data)))
      @@ ("test_count" :> Whole(Len(data)))

calculate_reaction_time_metrics(data) ==
    IF data = <<>> THEN EmptyDict
    ELSE ("avg_reaction_time" :> Frac(SumOf(data, "average_reaction_time"), Len(data)))
      @@ ("max_reaction_time" :> Whole(MaxOf(data, "average_reaction_time")))
      @@ ("min_reaction_time" :> Whole(MinOf(data, "average_reaction_time")))
      @@ ("avg_accuracy" :> Frac(SumOf(data, "accuracy_percentage"), Len(data)))
      @@ ("patient_count" :> Whole(DistinctPatients(data)))
      @@ ("test_count" :> Whole(Len(data)))

(***************************************************************************)
(* The float arithmetic of the aggregators: sum(avg_times) / len(avg_times)*)
(* in binary64, round to nearest, ties to even.  A natural number is a     *)
(* sequence of limbs, least significant first; a positive float is         *)
(* m * 2^e with a significand m of SignificandBits bits.                   *)
(***************************************************************************)
LimbBase == 2^15

SignificandBits == 53

RECURSIVE BigCarry(_, _)
BigCarry(ds, c) ==
    IF ds = <<>>
    THEN IF c = 0 THEN <<>> ELSE <<c % LimbBase>> \o BigCarry(<<>>, c \div LimbBase)
    ELSE LET t == Head(ds) + c
         IN  <<t % LimbBase>> \o BigCarry(Tail(ds), t \div LimbBase)

RECURSIVE BigTrim(_)
BigTrim(a) ==
    IF a # <<>> /\ a[Len(a)] = 0 THEN BigTrim(SubSeq(a, 1, Len(a) - 1)) ELSE a

LimbAt(a, i) == IF i <= Len(a) THEN a[i] ELSE 0

BigAdd(a, b) ==
    LET n == IF Len(a) >= Len(b) THEN Len(a) ELSE Len(b)
    IN  BigTrim(BigCarry([i \in 1..n |-> LimbAt(a, i) + LimbAt(b, i)], 0))

\* a * k for 0 <= k < LimbBase
BigMulSmall(a, k) == BigTrim(BigCarry([i \in 1..Len(a) |-> a[i] * k], 0))

\* quotient and remainder of the limbs i.. of a by k, 0 < k < LimbBase
RECURSIVE BigDivFrom(_, _, _)
BigDivFrom(a, k, i) ==
    IF i > Len(a) THEN [q |-> <<>>, r |-> 0]
    ELSE LET up == BigDivFrom(a, k, i + 1)
             cur == up.r * LimbBase + a[i]
         IN  [q |-> <<cur \div k>> \o up.q, r |-> cur % k]

BigDivMod(a, k) ==
    LET d == BigDivFrom(a, k, 1) IN [q |-> BigTrim(d.q), r |-> d.r]

\* a * 2^s: whole limbs of zeros below, the rest by multiplication
BigShiftLeft(a, s) ==
    IF a = <<>> THEN <<>>
    ELSE [i \in 1..(s \div 15) |-> 0] \o BigMulSmall(a, 2^(s % 15))

\* a \div 2^s
BigShiftRight(a, s) ==
    IF s \div 15 >= Len(a) THEN <<>>
    ELSE BigDivMod(SubSeq(a, s \div 15 + 1, Len(a)), 2^(s % 15)).q

\* the bit of weight 2^i of a
BitAt(a, i) == (LimbAt(a, i \div 15 + 1) \div 2^(i % 15)) % 2

\* some bit of a of weight below 2^i is set
AnyBitBelow(a, i) ==
    \/ \E j \in 1..(i \div 15) : LimbAt(a, j) # 0
    \/ LimbAt(a, i \div 15 + 1) % 2^(i % 15) # 0

RECURSIVE BitsOf(_)
BitsOf(n) == IF n = 0 THEN 0 ELSE 1 + BitsOf(n \div 2)

\* the length in bits of a trimmed natural
BitLength(a) == IF a = <<>> THEN 0 ELSE 15 * (Len(a) - 1) + BitsOf(a[Len(a)])

\* a < b for trimmed naturals
RECURSIVE BigLess(_, _)
BigLess(a, b) ==
    IF Len(a) # Len(b) THEN Len(a) < Len(b)
    ELSE IF a = <<>> THEN FALSE
    ELSE IF a[Len(a)] # b[Len(b)] THEN a[Len(a)] < b[Len(b)]
    ELSE BigLess(SubSeq(a, 1, Len(a) - 1), SubSeq(b, 1, Len(b) - 1))

\* a / 2^s for s > 0, rounded to nearest, ties to even
RoundShift(a, s) ==
    LET q == BigShiftRight(a, s)
    IN  IF BitAt(a, s - 1) = 1 /\ (AnyBitBelow(a, s - 1) \/ LimbAt(q, 1) % 2 = 1)
        THEN BigAdd(q, <<1>>)
        ELSE q

\* the float nearest to x * 2^e, x > 0
FloatRound(x, e) ==
    LET s == BitLength(x) - SignificandBits
    IN  IF s <= 0 THEN [m |-> BigShiftLeft(x, 0 - s), e |-> e + s]
        ELSE LET q == RoundShift(x, s)
             IN  IF BitLength(q) > SignificandBits
                 THEN [m |-> BigShiftRight(q, 1), e |-> e + s + 1]
                 ELSE [m |-> q, e |-> e + s]

\* a + b
FloatAdd(a, b) ==
    IF a.e >= b.e
    THEN FloatRound(BigAdd(BigShiftLeft(a.m, a.e - b.e), b.m), b.e)
    ELSE FloatRound(BigAdd(BigShiftLeft(b.m, b.e - a.e), a.m), a.e)

\* a / n for an int 0 < n < LimbBase: the quotient is taken with 20 more
\* bits, and one bit telling whether a remainder is left, before it is rounded
FloatDivInt(a, n) ==
    LET d == BigDivMod(BigShiftLeft(a.m, 20), n)
        x == BigAdd(BigMulSmall(d.q, 2), IF d.r = 0 THEN <<>> ELSE <<1>>)
    IN  FloatRound(x, a.e - 21)

\* a < b and a <= b
FloatLess(a, b) == a.e < b.e \/ (a.e = b.e /\ BigLess(a.m, b.m))

FloatLeq(a, b) == ~FloatLess(b, a)

\* sum(values): 0 + values[1] + values[2] + ..., values not empty
RECURSIVE FloatSum(_, _)
FloatSum(values, n) ==
    IF n = 1 THEN values[1] ELSE FloatAdd(FloatSum(values, n - 1), values[n])

\* max(values) and min(values): the first of the largest / smallest
FloatMax(values) ==
    values[CHOOSE i \in 1..Len(values) :
              \A j \in 1..Len(values) : FloatLeq(values[j], values[i])]

FloatMin(values) ==
    values[CHOOSE i \in 1..Len(values) :
              \A j \in 1..Len(values) : FloatLeq(values[i], values[j])]

\* the reaction-time aggregates of lines 145-156 for records whose
\* average_reaction_time is a float with a fraction
reaction_time_aggregates(avg_times) ==
    [avg_reaction_time |-> FloatDivInt(FloatSum(avg_times, Len(avg_times)),
                                       Len(avg_times)),
     max_reaction_time |-> FloatMax(avg_times),
     min_reaction_time |-> FloatMin(avg_times),
     test_count |-> Len(avg_times)]

(***************************************************************************)
(* QueryProcessor._generate_response                                       *)
(***************************************************************************)
\* data.get(key, 0)
DictGet(data, key) == IF key \in DOMAIN data THEN data[key] ELSE Whole(0)

\* a non-negative fraction times scale, rounded to the nearest integer, ties
\* to even: the digits format() prints for the float num/den
RoundScaled(f, scale) ==
    LET n == f.num * scale
        q == n \div f.den
        r == n % f.den
    IN  IF 2 * r > f.den THEN q + 1
        ELSE IF 2 * r = f.den /\ q % 2 = 1 THEN q + 1
        ELSE q

\* f"{x:.1f}"
Format1f(f) ==
    LET t == RoundScaled(f, 10) IN ToString(t \div 10) \o "." \o ToString(t % 10)

\* f"{x:.0f}"
Format0f(f) == ToString(RoundScaled(f, 1))

NO_DATA_MESSAGE ==
    "I couldn't find any data matching your query. Please try with different criteria."

ALERT_ADDENDUM ==
    "\n\nThis data may require clinical attention if values are significantly elevated from baseline."

SymptomSentence(result) ==
    "Based on " \o ToString(result.count)
    \o " symptom assessments, the average total symptom score is "
    \o Format1f(DictGet(result.data, "avg_total_symptom_score")) \o ". "
    \o "Average headache severity is "
    \o Format1f(DictGet(result.data, "avg_headache_severity")) \o " out of 6."

\* ReactionSentence with the reaction time printed to one decimal
ReactionSentence_TimeOneDecimal(result) ==
    "Based on " \o ToString(result.count)
    \o " reaction time tests, the average reaction time is "
    \o Format1f(DictGet(result.data, "avg_reaction_time")) \o "ms with an average accuracy of "
    \o Format1f(DictGet(result.data, "avg_accuracy")) \o "%."

ReactionSentence(result) ==
    "Based on " \o ToString(result.count)
    \o " reaction time tests, the average reaction time is "
    \o Format0f(DictGet(result.data, "avg_reaction_time")) \o "ms with an average accuracy of "
    \o Format1f(DictGet(result.data, "avg_accuracy")) \o "%."

\* " ".join(parts)
RECURSIVE JoinSpace(_)
JoinSpace(parts) ==
    IF parts = <<>> THEN ""
    ELSE IF Len(parts) = 1 THEN parts[1]
    ELSE parts[1] \o " " \o JoinSpace(Tail(parts))

\* the loop over results: one part per result of a known module
RECURSIVE ResponseParts(_)
ResponseParts(results) ==
    IF results = <<>> THEN <<>>
    ELSE LET r == Head(results)
             part == IF r.module = "symptom_checklist" THEN <<SymptomSentence(r)>>
                     ELSE IF r.module = "reaction_time" THEN <<ReactionSentence(r)>>
                     ELSE <<>>
         IN  part \o ResponseParts(Tail(results))

\* _generate_response appending the addendum whatever the intent
_generate_response_AddendumAlways(classification, results) ==
    IF results = <<>> THEN NO_DATA_MESSAGE
    ELSE JoinSpace(Append(ResponseParts(results), ALERT_ADDENDUM))

\* _generate_response without the test of lines 232-233
_generate_response_NoEmptyCheck(classification, results) ==
    LET parts == ResponseParts(results)
    IN  JoinSpace(IF classification.intent = "alert" /\ results # <<>>
                  THEN Append(parts, ALERT_ADDENDUM) ELSE parts)

_generate_response(classification, results) ==
    IF results = <<>> THEN NO_DATA_MESSAGE
    ELSE LET parts == ResponseParts(results)
         IN  JoinSpace(IF classification.intent = "alert" /\ results # <<>>
                       THEN Append(parts, ALERT_ADDENDUM) ELSE parts)

(***************************************************************************)
(* The inputs.                                                             *)
(***************************************************************************)
\* the words and phrases questions are made of
Vocabulary ==
    { "average", "vs", "headache", "total", "score", "reaction", "time",
      "accuracy", "LSU", "last week", "01/15/2024", "severe" }

\* the questions of the test suite and of the specification's scenarios
TestQuestions ==
    { "What is the average headache severity for LSU players?",
      "What is the average headache severity?",
      "Show me players with reaction time above 300ms",
      "Show me reaction times for the team",
      "List players with high symptom scores and slow reaction times",
      "Tell me about the team performance",
      "Show me overall patient assessments",
      "Show me data for non-existent team",
      "show me LSU players with symptoms",
      "show me the worst performance",
      "what is the lowest number of Tigers",
      "how many concern the trend over time",
      "what happened in the past month",
      "alerts in the past 30 days and yesterday",
      "Test query",
      "a",
      "Compare John Smith with the Tigers",
      "any alert today or yesterday",
      "moderate or severe pain",
      "list moderate symptom cases",
      "display the best response speed on 1/2/2024 and 12/31/2023" }

RECURSIVE QuestionsOfLen(_)
QuestionsOfLen(n) ==
    IF n = 0 THEN {""}
    ELSE IF n = 1 THEN Vocabulary
    ELSE { w \o " " \o q : w \in Vocabulary, q \in QuestionsOfLen(n - 1) }

\* the questions classify_query is called with
Questions == TestQuestions \cup UNION { QuestionsOfLen(n) : n \in 0..MaxWords }

\* the questions process_query is called with
ProcessQuestions ==
    { "What is the average headache severity for LSU players?",
      "Show me reaction times for the team",
      "Show me overall patient assessments",
      "Test query",
      "any alert since yesterday",
      "alert: headache today",
      "trend of the score last week",
      "headache on 01/15/2024" }

\* the exceptions a fetch of the gateway can raise
GatewayErrors == { "OperationalError", "TimeoutError" }

\* the team_id hints process_query is called with
TeamHints == { None, Some(""), Some("LSU_TIGERS"), Some("DEMO_TEAM") }

(***************************************************************************)
(* The state.                                                              *)
(***************************************************************************)
VARIABLES
    pc,                    \* position of the call: start, classified,
                           \* converted, symptom_done, reaction_done, done, raised
    question,              \* argument of classify_query / process_query
    team_id,               \* argument of process_query
    symptom_assessments,   \* the store: table symptom_assessments
    reaction_time_tests,   \* the store: table reaction_time_tests
    classification,        \* local of process_query (None until classified)
    date_range,            \* local of process_query
    symptom_data,          \* local of process_query (None until fetched)
    reaction_data,         \* local of process_query (None until fetched)
    results,               \* local of process_query
    calls,                 \* the calls made on db_service, in order
    response,              \* the value process_query returned (None until then)
    error,                 \* the exception that left the call (None if none)
    unit_call,             \* a method called on its own: its name, its arguments
                           \* and, for get_s3_assessment_data, the bucket it reads
    returned,              \* the value that call returned (None until then)
    requests               \* the requests in flight at the query endpoint, by id

vars == << pc, question, team_id, symptom_assessments, reaction_time_tests,
           classification, date_range, symptom_data, reaction_data, results,
           calls, response, error, unit_call, returned,
           requests >>

store == << symptom_assessments, reaction_time_tests >>

\* no method is called on its own: process_query or classify_query runs
NoCall == [op |-> "none"]

Locals ==
    /\ pc = "start"
    /\ classification = None
    /\ date_range = NoWindow
    /\ symptom_data = None
    /\ reaction_data = None
    /\ results = <<>>
    /\ calls = <<>>
    /\ response = None
    /\ error = None
    /\ returned = None
    /\ requests = <<>>

\* a call of process_query(question, team_id=team_id) on some store
Init ==
    /\ question \in ProcessQuestions
    /\ team_id \in TeamHints
    /\ symptom_assessments \in Tables(SymptomRows)
    /\ reaction_time_tests \in Tables(ReactionRows)
    /\ unit_call = NoCall
    /\ Locals

\* a call of classify_query(question)
InitClassify ==
    /\ question \in Questions
    /\ team_id = None
    /\ symptom_assessments = {}
    /\ reaction_time_tests = {}
    /\ unit_call = NoCall
    /\ Locals

(***************************************************************************)
(* process_query, statement by statement                                   *)
(***************************************************************************)
\* line 154: classification = self.classify_query(question)
Classify ==
    /\ pc = "start"
    /\ LET c == classify_query(question)
       IN  IF c.valid
           THEN /\ classification' = Some(c)
                /\ pc' = "classified"
                /\ error' = None
           ELSE /\ classification' = None
                /\ pc' = "raised"
                /\ error' = Some("ValidationError")
    /\ UNCHANGED << requests, unit_call, returned, question, team_id, store,
                    date_range, symptom_data,
                    reaction_data, results, calls, response >>

\* line 157: date_range = self._convert_time_range(classification.time_range)
ConvertTimeRange ==
    /\ pc = "classified"
    /\ \E now \in Clock :
          date_range' = _convert_time_range(classification[1].time_range, now)
    /\ pc' = "converted"
    /\ UNCHANGED << requests, unit_call, returned, question, team_id, store,
                    classification, symptom_data,
                    reaction_data, results, calls, response, error >>

\* FetchCall with the team taken from the classification alone
FetchCallIgnoringHint(op, raised) ==
    [op |-> op,
     raised |-> raised,
     patient_id |-> None,
     team_id |-> classification[1].filters.team,
     date_from |-> date_range.start,
     date_to |-> date_range.end]

\* the keyword arguments of the two fetches (lines 163-167 and 177-181)
\* and the way the call ended: raised is None when it returned
FetchCall(op, raised) ==
    [op |-> op,
     raised |-> raised,
     patient_id |-> None,
     team_id |-> OrElse(team_id, classification[1].filters.team),
     date_from |-> date_range.start,
     date_to |-> date_range.end]

\* FetchSymptoms without the test of line 168
FetchSymptomsUnguarded ==
    /\ pc = "converted"
    /\ InSeq(SYMPTOM_CHECKLIST, classification[1].modules)
    /\ LET call == [op |-> "get_symptom_data", raised |-> None, patient_id |-> None,
                    team_id |-> OrElse(team_id, classification[1].filters.team),
                    date_from |-> date_range.start, date_to |-> date_range.end]
           data == get_symptom_data(symptom_assessments, call.patient_id,
                                    call.team_id, call.date_from, call.date_to)
       IN  /\ calls' = Append(calls, call)
           /\ symptom_data' = Some(data)
           /\ results' = Append(results,
                                [module |-> "symptom_checklist",
                                 data |-> calculate_symptom_metrics(data),
                                 count |-> Len(data)])
    /\ pc' = "symptom_done"
    /\ UNCHANGED << requests, unit_call, returned, question, team_id,
                    symptom_assessments, reaction_time_tests,
                    classification, date_range, reaction_data, response, error >>

\* lines 162-174, the fetch returning
FetchSymptoms ==
    /\ pc = "converted"
    /\ InSeq(SYMPTOM_CHECKLIST, classification[1].modules)
    /\ LET call == FetchCall("get_symptom_data", None)
           data == get_symptom_data(symptom_assessments, call.patient_id,
                                    call.team_id, call.date_from, call.date_to)
       IN  /\ calls' = Append(calls, call)
           /\ symptom_data' = Some(data)
           /\ results' = IF data # <<>>
                         THEN Append(results,
                                     [module |-> "symptom_checklist",
                                      data |-> calculate_symptom_metrics(data),
                                      count |-> Len(data)])
                         ELSE results
    /\ pc' = "symptom_done"
    /\ UNCHANGED << requests, unit_call, returned, question, team_id, store,
                    classification, date_range,
                    reaction_data, response, error >>

\* lines 163-167, the fetch raising: the exception leaves process_query
FetchSymptomsRaises ==
    /\ pc = "converted"
    /\ InSeq(SYMPTOM_CHECKLIST, classification[1].modules)
    /\ \E e \in GatewayErrors :
          /\ calls' = Append(calls, FetchCall("get_symptom_data", Some(e)))
          /\ error' = Some(e)
    /\ pc' = "raised"
    /\ UNCHANGED << requests, unit_call, returned, question, team_id, store,
                    classification, date_range,
                    symptom_data, reaction_data, results, response >>

\* SkipSymptoms with the fetch made although the module is not selected
SkipSymptoms_FetchesAnyway ==
    /\ pc = "converted"
    /\ ~InSeq(SYMPTOM_CHECKLIST, classification[1].modules)
    /\ calls' = Append(calls, FetchCall("get_symptom_data", None))
    /\ symptom_data' = Some(<<>>)
    /\ pc' = "symptom_done"
    /\ UNCHANGED << requests, unit_call, returned, question, team_id, store,
                    classification, date_range,
                    reaction_data, results, response, error >>

\* line 162, the condition false
SkipSymptoms ==
    /\ pc = "converted"
    /\ ~InSeq(SYMPTOM_CHECKLIST, classification[1].modules)
    /\ pc' = "symptom_done"
    /\ UNCHANGED << requests, unit_call, returned, question, team_id, store,
                    classification, date_range,
                    symptom_data, reaction_data, results, calls, response, error >>

\* lines 176-188, the fetch returning
FetchReactionTimes ==
    /\ pc = "symptom_done"
    /\ InSeq(REACTION_TIME, classification[1].modules)
    /\ LET call == FetchCall("get_reaction_time_data", None)
           data == get_reaction_time_data(reaction_time_tests, call.patient_id,
                                          call.team_id, call.date_from, call.date_to)
       IN  /\ calls' = Append(calls, call)
           /\ reaction_data' = Some(data)
           /\ results' = IF data # <<>>
                         THEN Append(results,
                                     [module |-> "reaction_time",
                                      data |-> calculate_reaction_time_metrics(data),
                                      count |-> Len(data)])
                         ELSE results
    /\ pc' = "reaction_done"
    /\ UNCHANGED << requests, unit_call, returned, question, team_id, store,
                    classification, date_range,
                    symptom_data, response, error >>

\* FetchReactionTimesRaises with the exception caught and the module dropped
FetchReactionTimesSuppressed ==
    /\ pc = "symptom_done"
    /\ InSeq(REACTION_TIME, classification[1].modules)
    /\ \E e \in {"OperationalError", "TimeoutError"} :
          calls' = Append(calls,
                          [op |-> "get_reaction_time_data", raised |-> Some(e),
                           patient_id |-> None,
                           team_id |-> OrElse(team_id, classification[1].filters.team),
                           date_from |-> date_range.start, date_to |-> date_range.end])
    /\ reaction_data' = Some(<<>>)
    /\ pc' = "reaction_done"
    /\ UNCHANGED << requests, unit_call, returned, question, team_id,
                    symptom_assessments, reaction_time_tests,
                    classification, date_range, symptom_data, results, response, error >>

\* lines 177-181, the fetch raising
FetchReactionTimesRaises ==
    /\ pc = "symptom_done"
    /\ InSeq(REACTION_TIME, classification[1].modules)
    /\ \E e \in GatewayErrors :
          /\ calls' = Append(calls, FetchCall("get_reaction_time_data", Some(e)))
          /\ error' = Some(e)
    /\ pc' = "raised"
    /\ UNCHANGED << requests, unit_call, returned, question, team_id, store,
                    classification, date_range,
                    symptom_data, reaction_data, results, response >>

\* line 176, the condition false
SkipReactionTimes ==
    /\ pc = "symptom_done"
    /\ ~InSeq(REACTION_TIME, classification[1].modules)
    /\ pc' = "reaction_done"
    /\ UNCHANGED << requests, unit_call, returned, question, team_id, store,
                    classification, date_range,
                    symptom_data, reaction_data, results, calls, response, error >>

\* [r["module"] for r in results]
RECURSIVE ModulesOf(_)
ModulesOf(rs) == IF rs = <<>> THEN <<>> ELSE <<Head(rs).module>> \o ModulesOf(Tail(rs))

\* lines 191-202: the response and the returned dict
Respond ==
    /\ pc = "reaction_done"
    /\ response' = Some([answer |-> _generate_response(classification[1], results),
                         confidence |-> classification[1].confidence,
                         source_modules |-> ModulesOf(results),
                         metadata |-> [classification |-> classification[1],
                                       results |-> results,
                                       query_type |-> classification[1].intent]])
    /\ pc' = "done"
    /\ UNCHANGED << requests, unit_call, returned, question, team_id, store,
                    classification, date_range,
                    symptom_data, reaction_data, results, calls, error >>

Next ==
    \/ Classify
    \/ ConvertTimeRange
    \/ FetchSymptoms
    \/ FetchSymptomsRaises
    \/ SkipSymptoms
    \/ FetchReactionTimes
    \/ FetchReactionTimesRaises
    \/ SkipReactionTimes
    \/ Respond

Spec == Init /\ [][Next]_vars

\* classify_query called on its own
NextClassify == Classify

SpecClassify == InitClassify /\ [][NextClassify]_vars

(***************************************************************************)
(* The methods of QueryProcessor and DatabaseService called on their own,  *)
(* as the unit tests call them.                                            *)
(***************************************************************************)
\* the readings datetime.now() can give in such a call
CallClock ==
    { Dt(d, t[1], t[2], t[3], us) :
        d \in {31, 100},
        t \in { <<0, 0, 0>>, <<14, 30, 15>>, <<23, 59, 59>> },
        us \in {0, 250000, 999999} }

\* the time ranges _convert_time_range is called with: None, {}, a period of
\* the table, a period outside it, a list of date tokens
TimeRanges ==
    { None, Some([keys |-> {}, period |-> "", custom_dates |-> <<>>]) }
    \cup { PeriodRange(p) : p \in { "last_week", "last_month", "last_30_days",
                                     "today", "yesterday", "last_year", "" } }
    \cup { CustomDatesRange(ds) :
             ds \in { << <<"01", "15", "2024">> >>,
                      << <<"1", "2", "2024">>, <<"12", "31", "2023">> >> } }

\* the lists of at most MaxRecords records drawn from rows
RECURSIVE ListsOfLen(_, _)
ListsOfLen(rows, n) ==
    IF n = 0 THEN { <<>> }
    ELSE { <<r>> \o l : r \in rows, l \in ListsOfLen(rows, n - 1) }

RecordLists(rows) == UNION { ListsOfLen(rows, n) : n \in 0..MaxRecords }

\* the symptom records calculate_symptom_metrics is called with
SymptomRecords ==
    { [patient_id |-> "P001", total_symptom_score |-> 35, headache_severity |-> 2],
      [patient_id |-> "P001", total_symptom_score |-> 78, headache_severity |-> 4],
      [patient_id |-> "P002", total_symptom_score |-> 15, headache_severity |-> 1],
      [patient_id |-> "P002", total_symptom_score |-> 0, headache_severity |-> 0],
      [patient_id |-> "P003", total_symptom_score |-> 132, headache_severity |-> 6] }

\* the reaction-time records calculate_reaction_time_metrics is called with
ReactionRecords ==
    { [patient_id |-> "P001", average_reaction_time |-> 245, accuracy_percentage |-> 94],
      [patient_id |-> "P001", average_reaction_time |-> 298, accuracy_percentage |-> 84],
      [patient_id |-> "P002", average_reaction_time |-> 234, accuracy_percentage |-> 96],
      [patient_id |-> "P002", average_reaction_time |-> 298, accuracy_percentage |-> 0],
      [patient_id |-> "P003", average_reaction_time |-> 310, accuracy_percentage |-> 100] }

\* the metrics maps of the results _generate_response is called with: the
\* maps of the unit tests, maps with a key missing, the empty map
SymptomMetricsMaps ==
    { ("avg_total_symptom_score" :> Frac(113, 2)) @@ ("avg_headache_severity" :> Whole(3)),
      ("avg_total_symptom_score" :> Frac(128, 3)) @@ ("avg_headache_severity" :> Frac(1, 4)),
      ("avg_total_symptom_score" :> Frac(35, 1)),
      EmptyDict }

ReactionMetricsMaps ==
    { ("avg_reaction_time" :> Frac(2721, 10)) @@ ("avg_accuracy" :> Whole(89)),
      ("avg_reaction_time" :> Frac(545, 2)) @@ ("avg_accuracy" :> Frac(274, 3)),
      ("avg_accuracy" :> Frac(84, 1)),
      EmptyDict }

\* the results: {"module": ..., "data": ..., "count": ...}
ModuleResults ==
    { [module |-> "symptom_checklist", data |-> d, count |-> c] :
        d \in SymptomMetricsMaps, c \in {1, 10} }
    \cup { [module |-> "reaction_time", data |-> d, count |-> c] :
             d \in ReactionMetricsMaps, c \in {1, 8} }

ResultLists == UNION { ListsOfLen(ModuleResults, n) : n \in 0..MaxResults }

\* the classifications of the unit tests, one per intent
TestClassifications ==
    { QueryClassification(intent, <<SYMPTOM_CHECKLIST>>, <<"total_symptom_score">>,
                          [team |-> None, min_severity |-> None], None, CONFIDENCE) :
        intent \in {"average", "list", "alert"} }

\* the keys and blobs of the buckets get_s3_assessment_data reads
S3Keys ==
    { "assessments/P001/symptom_checklist/latest.json",
      "assessments/P001/reaction_time/latest.json",
      "assessments/P002/symptom_checklist/latest.json" }

Blobs ==
    { Blob(TRUE, "{\"detailed_assessment\": \"test_data\"}"),
      Blob(TRUE, "{\"trials\": \"12\"}"),
      Blob(TRUE, "{}"),
      Blob(TRUE, "{\"detailed_assessment\": "),
      Blob(FALSE, "") }

Buckets == UNION { [ks -> Blobs] : ks \in SUBSET S3Keys }

\* the failures of the transport during one call
Faults == { None, Some("get_object"), Some("read") }

\* the variables of process_query, idle during such a call
pipeline == << pc, question, team_id, symptom_assessments, reaction_time_tests,
               classification, date_range, symptom_data, reaction_data,
               results, calls, response, error >>

\* the average_reaction_time values of records holding floats with a
\* fraction: float("241.3"), float("245.5"), float("298.7"), float("198.2")
FloatReactionTimes ==
    { [m |-> <<6554, 13107, 9830, 241>>, e |-> -45],
      [m |-> <<0, 0, 16384, 245>>, e |-> -45],
      [m |-> <<13107, 26214, 11468, 149>>, e |-> -44],
      [m |-> <<26214, 19660, 6553, 198>>, e |-> -45] }

InitCalls ==
    /\ question = ""
    /\ team_id = None
    /\ symptom_assessments = {}
    /\ reaction_time_tests = {}
    /\ Locals
    /\ \/ \E tr \in TimeRanges :
             unit_call = [op |-> "_convert_time_range", time_range |-> tr]
       \/ \E c \in TestClassifications, rs \in ResultLists :
             unit_call = [op |-> "_generate_response", classification |-> c,
                          results |-> rs]
       \/ \E s3 \in Buckets, p \in {"P001", "P002"},
             t \in {SYMPTOM_CHECKLIST, REACTION_TIME}, f \in Faults :
             unit_call = [op |-> "get_s3_assessment_data", s3 |-> s3,
                          patient_id |-> p, assessment_type |-> t, fault |-> f]
       \/ \E a \in {-100, 0, 200}, b \in {-1, 150}, w \in {-5, 300},
             n \in {-1, 0, 50}, k \in {-1, 0, 47, 51}, p \in {-1, 0, 94, 100, 101} :
             unit_call = [op |-> "ReactionTimeData",
                          average_reaction_time |-> a, best_reaction_time |-> b,
                          worst_reaction_time |-> w, total_attempts |-> n,
                          successful_attempts |-> k, accuracy_percentage |-> p]
       \/ \E data \in RecordLists(SymptomRecords) :
             unit_call = [op |-> "calculate_symptom_metrics", data |-> data]
       \/ \E data \in RecordLists(ReactionRecords) :
             unit_call = [op |-> "calculate_reaction_time_metrics", data |-> data]
       \/ \E avg_times \in RecordLists(FloatReactionTimes) \ { <<>> } :
             unit_call = [op |-> "reaction_time_aggregates", avg_times |-> avg_times]

\* processor._convert_time_range(time_range)
ConvertTimeRangeCall ==
    /\ unit_call.op = "_convert_time_range"
    /\ returned = None
    /\ \E now \in CallClock :
          returned' = Some(_convert_time_range(unit_call.time_range, now))
    /\ UNCHANGED << requests, unit_call, pipeline >>

\* db_service.calculate_symptom_metrics(data)
CalculateSymptomMetricsCall ==
    /\ unit_call.op = "calculate_symptom_metrics"
    /\ returned = None
    /\ returned' = Some(calculate_symptom_metrics(unit_call.data))
    /\ UNCHANGED << requests, unit_call, pipeline >>

\* db_service.calculate_reaction_time_metrics(data)
CalculateReactionTimeMetricsCall ==
    /\ unit_call.op = "calculate_reaction_time_metrics"
    /\ returned = None
    /\ returned' = Some(calculate_reaction_time_metrics(unit_call.data))
    /\ UNCHANGED << requests, unit_call, pipeline >>

\* db_service.calculate_reaction_time_metrics(data) on records of floats
ReactionTimeAggregatesCall ==
    /\ unit_call.op = "reaction_time_aggregates"
    /\ returned = None
    /\ returned' = Some(reaction_time_aggregates(unit_call.avg_times))
    /\ UNCHANGED << requests, unit_call, pipeline >>

\* processor._generate_response(classification, results)
GenerateResponseCall ==
    /\ unit_call.op = "_generate_response"
    /\ returned = None
    /\ returned' = Some(_generate_response(unit_call.classification,
                                           unit_call.results))
    /\ UNCHANGED << requests, unit_call, pipeline >>

\* db_service.get_s3_assessment_data(patient_id, assessment_type)
GetS3AssessmentDataCall ==
    /\ unit_call.op = "get_s3_assessment_data"
    /\ returned = None
    /\ returned' = Some(get_s3_assessment_data(unit_call.s3, unit_call.patient_id,
                                               unit_call.assessment_type,
                                               unit_call.fault))
    /\ UNCHANGED << requests, unit_call, pipeline >>

\* ReactionTimeData(test_id=..., ..., accuracy_percentage=...)
ReactionTimeDataCall ==
    /\ unit_call.op = "ReactionTimeData"
    /\ returned = None
    /\ returned' = Some(ReactionTimeData(unit_call.average_reaction_time,
                                         unit_call.best_reaction_time,
                                         unit_call.worst_reaction_time,
                                         unit_call.total_attempts,
                                         unit_call.successful_attempts,
                                         unit_call.accuracy_percentage))
    /\ UNCHANGED << requests, unit_call, pipeline >>

NextCalls ==
    \/ ConvertTimeRangeCall
    \/ ReactionTimeDataCall
    \/ GetS3AssessmentDataCall
    \/ GenerateResponseCall
    \/ CalculateSymptomMetricsCall
    \/ CalculateReactionTimeMetricsCall
    \/ ReactionTimeAggregatesCall

SpecCalls == InitCalls /\ [][NextCalls]_vars

(***************************************************************************)
(* backend/main.py: the query endpoint, POST /api/v1/query, with several   *)
(* requests in flight on one store.                                        *)
(***************************************************************************)
\* the requests in flight
RequestIds == {"r1", "r2"}

\* the bodies of the requests: question, user_id, team_id
QueryRequest(q, u, t) == [question |-> q, user_id |-> u, team_id |-> t]

QueryRequests ==
    { QueryRequest("What is the average headache severity?", None, None),
      QueryRequest("What is the average headache severity?", Some("coach-7"),
                   Some("LSU_TIGERS")),
      QueryRequest("Show me reaction times for the team", None, Some("DEMO_TEAM")),
      QueryRequest("any alert today", Some("coach-7"), None),
      QueryRequest("headache on 01/15/2024", None, None),
      QueryRequest("Show me severe nausea", Some("coach-7"), None) }

\* the exceptions the import and QueryProcessor() can raise
BuildErrors == { "ModuleNotFoundError" }

\* str(e)
ExceptionText(e) ==
    IF e = "ValidationError"
    THEN "1 validation error for QueryClassification time_range.custom_dates"
    ELSE IF e = "OperationalError"
    THEN "(pymysql.err.OperationalError) (2003, Can't connect to MySQL server)"
    ELSE IF e = "TimeoutError"
    THEN "QueuePool limit of size 5 overflow 10 reached, connection timed out"
    ELSE IF e = "ModuleNotFoundError" THEN "No module named 'pymysql'"
    ELSE ""

\* the keyword arguments of processor.process_query (lines 59-62)
ForwardedArguments(request) ==
    [question |-> request.question, team_id |-> request.team_id]

\* QueryResponse(...) of lines 64-69 with the metadata left at its default
QueryResponse_NoMetadata(result) ==
    [status |-> 200,
     body |-> Some([answer |-> result.answer,
                    confidence |-> result.confidence,
                    source_modules |-> result.source_modules,
                    metadata |-> <<>>]),
     detail |-> None]

\* lines 64-69: the 200 response built from the processor's result
QueryResponse(result) ==
    [status |-> 200,
     body |-> Some([answer |-> result.answer,
                    confidence |-> result.confidence,
                    source_modules |-> result.source_modules,
                    metadata |-> Some(result.metadata)]),
     detail |-> None]

\* lines 70-71: HTTPException(status_code=500, detail=f"...: {str(e)}")
HTTPException(e) ==
    [status |-> 500,
     body |-> None,
     detail |-> Some("Query processing failed: " \o ExceptionText(e))]

\* a request as the endpoint has received it
Received(request) ==
    [pc |-> "received",
     request |-> request,
     forwarded |-> None,          \* the arguments process_query was called with
     classification |-> None,
     date_range |-> NoWindow,
     seen_symptoms |-> None,      \* the table its symptom fetch read
     seen_reactions |-> None,     \* the table its reaction-time fetch read
     now |-> None,                \* the clock reading of _convert_time_range
     results |-> <<>>,
     result |-> None,             \* the dict process_query returned
     raised |-> None,             \* the exception caught at line 70
     http |-> None]               \* the response sent

\* the store the server starts on
InitServer ==
    /\ requests \in [RequestIds -> { Received(q) : q \in QueryRequests }]
    /\ symptom_assessments = { r \in SymptomRows : r.id = "S001" }
    /\ reaction_time_tests = { r \in ReactionRows : r.id = "R001" }
    /\ question = ""
    /\ team_id = None
    /\ unit_call = NoCall
    /\ pc = "start"
    /\ classification = None
    /\ date_range = NoWindow
    /\ symptom_data = None
    /\ reaction_data = None
    /\ results = <<>>
    /\ calls = <<>>
    /\ response = None
    /\ error = None
    /\ returned = None

\* the variables of one process_query run and of the direct calls, idle
\* in the server
single == << pc, question, team_id, classification, date_range, symptom_data,
            reaction_data, results, calls, response, error, unit_call, returned >>

\* the request r ends with the exception e: lines 70-71
Fails(r, e) ==
    [requests[r] EXCEPT !.pc = "responded", !.raised = Some(e),
                        !.http = Some(HTTPException(e))]

\* lines 56-58: the import and QueryProcessor() succeed
ServeBuild(r) ==
    /\ requests[r].pc = "received"
    /\ requests' = [requests EXCEPT ![r].pc = "built"]
    /\ UNCHANGED << store, single >>

\* lines 56-58: the import or QueryProcessor() raises
ServeBuildRaises(r) ==
    /\ requests[r].pc = "received"
    /\ \E e \in BuildErrors : requests' = [requests EXCEPT ![r] = Fails(r, e)]
    /\ UNCHANGED << store, single >>

\* lines 59-62 up to the first fetch: process_query is called, classifies
\* the question and resolves the window
ServeClassify(r) ==
    /\ requests[r].pc = "built"
    /\ LET args == ForwardedArguments(requests[r].request)
           c == classify_query(args.question)
       IN  IF c.valid
           THEN \* datetime.now() is read for a non-empty time range only
                \E now \in (IF IsNone(c.time_range) THEN {None}
                             ELSE { Some(t) : t \in Clock }) :
                  requests' =
                    [requests EXCEPT
                       ![r].pc = "classified",
                       ![r].forwarded = Some(args),
                       ![r].classification = Some(c),
                       ![r].now = now,
                       ![r].date_range =
                          IF now = None THEN _convert_time_range(None, Dt(0, 0, 0, 0, 0))
                          ELSE _convert_time_range(c.time_range, now[1])]
           ELSE requests' =
                  [requests EXCEPT
                     ![r] = [Fails(r, "ValidationError") EXCEPT
                               !.forwarded = Some(args)]]
    /\ UNCHANGED << store, single >>

\* the team the fetches of request r are scoped to
ServeTeam(r) ==
    OrElse(requests[r].forwarded[1].team_id,
           requests[r].classification[1].filters.team)

\* the symptom step of process_query with the aggregates taken from another
\* request that has fetched already
ServeSymptoms_Shared(r) ==
    /\ requests[r].pc = "classified"
    /\ LET req == requests[r]
           data == get_symptom_data(symptom_assessments, None, ServeTeam(r),
                                    req.date_range.start, req.date_range.end)
           cached == { o \in RequestIds : o # r /\ requests[o].results # <<>> }
       IN  IF ~InSeq(SYMPTOM_CHECKLIST, req.classification[1].modules)
           THEN requests' = [requests EXCEPT ![r].pc = "symptom_done"]
           ELSE requests' =
                  [requests EXCEPT
                     ![r].pc = "symptom_done",
                     ![r].seen_symptoms = Some(symptom_assessments),
                     ![r].results =
                        IF cached # {}
                        THEN <<requests[CHOOSE o \in cached : TRUE].results[1]>>
                        ELSE IF data = <<>> THEN <<>>
                        ELSE << [module |-> "symptom_checklist",
                                 data |-> calculate_symptom_metrics(data),
                                 count |-> Len(data)] >>]
    /\ UNCHANGED << store, single >>

\* the symptom step of process_query with the rows below the min_severity
\* filter of the classification left out
ServeSymptoms_MinSeverity(r) ==
    /\ requests[r].pc = "classified"
    /\ LET req == requests[r]
           least == req.classification[1].filters.min_severity
           data == get_symptom_data(
                      { row \in symptom_assessments :
                          least # None => row.headache_severity >= least[1] },
                      None, ServeTeam(r), req.date_range.start, req.date_range.end)
       IN  IF ~InSeq(SYMPTOM_CHECKLIST, req.classification[1].modules)
           THEN requests' = [requests EXCEPT ![r].pc = "symptom_done"]
           ELSE requests' =
                  [requests EXCEPT
                     ![r].pc = "symptom_done",
                     ![r].seen_symptoms = Some(symptom_assessments),
                     ![r].results =
                        IF data = <<>> THEN <<>>
                        ELSE << [module |-> "symptom_checklist",
                                 data |-> calculate_symptom_metrics(data),
                                 count |-> Len(data)] >>]
    /\ UNCHANGED << store, single >>

\* lines 162-174: the symptom step of process_query, the fetch returning
ServeSymptoms(r) ==
    /\ requests[r].pc = "classified"
    /\ LET req == requests[r]
           data == get_symptom_data(symptom_assessments, None, ServeTeam(r),
                                    req.date_range.start, req.date_range.end)
       IN  IF ~InSeq(SYMPTOM_CHECKLIST, req.classification[1].modules)
           THEN requests' = [requests EXCEPT ![r].pc = "symptom_done"]
           ELSE requests' =
                  [requests EXCEPT
                     ![r].pc = "symptom_done",
                     ![r].seen_symptoms = Some(symptom_assessments),
                     ![r].results =
                        IF data = <<>> THEN <<>>
                        ELSE << [module |-> "symptom_checklist",
                                 data |-> calculate_symptom_metrics(data),
                                 count |-> Len(data)] >>]
    /\ UNCHANGED << store, single >>

\* lines 162-174, get_symptom_data raising
ServeSymptomsRaises(r) ==
    /\ requests[r].pc = "classified"
    /\ InSeq(SYMPTOM_CHECKLIST, requests[r].classification[1].modules)
    /\ \E e \in GatewayErrors : requests' = [requests EXCEPT ![r] = Fails(r, e)]
    /\ UNCHANGED << store, single >>

\* lines 176-188: the reaction-time step of process_query, the fetch returning
ServeReactionTimes(r) ==
    /\ requests[r].pc = "symptom_done"
    /\ LET req == requests[r]
           data == get_reaction_time_data(reaction_time_tests, None, ServeTeam(r),
                                          req.date_range.start, req.date_range.end)
       IN  IF ~InSeq(REACTION_TIME, req.classification[1].modules)
           THEN requests' = [requests EXCEPT ![r].pc = "reaction_done"]
           ELSE requests' =
                  [requests EXCEPT
                     ![r].pc = "reaction_done",
                     ![r].seen_reactions = Some(reaction_time_tests),
                     ![r].results =
                        IF data = <<>> THEN @
                        ELSE Append(@, [module |-> "reaction_time",
                                        data |-> calculate_reaction_time_metrics(data),
                                        count |-> Len(data)])]
    /\ UNCHANGED << store, single >>

\* lines 176-188, get_reaction_time_data raising
ServeReactionTimesRaises(r) ==
    /\ requests[r].pc = "symptom_done"
    /\ InSeq(REACTION_TIME, requests[r].classification[1].modules)
    /\ \E e \in GatewayErrors : requests' = [requests EXCEPT ![r] = Fails(r, e)]
    /\ UNCHANGED << store, single >>

\* query_processor.py lines 191-202 and main.py lines 64-69: process_query
\* returns its dict and the endpoint answers
ServeRespond(r) ==
    /\ requests[r].pc = "reaction_done"
    /\ LET req == requests[r]
           c == req.classification[1]
           result == [answer |-> _generate_response(c, req.results),
                      confidence |-> c.confidence,
                      source_modules |-> ModulesOf(req.results),
                      metadata |-> [classification |-> c,
                                    results |-> req.results,
                                    query_type |-> c.intent]]
       IN  requests' = [requests EXCEPT ![r].pc = "responded",
                                        ![r].result = Some(result),
                                        ![r].http = Some(QueryResponse(result))]
    /\ UNCHANGED << store, single >>

\* the assessments other clients store while the requests are served
NewSymptomRows == { r \in SymptomRows : r.id \in {"S002", "S003"} }

NewReactionRows == { r \in ReactionRows : r.id = "R002" }

\* another client of the database stores a new assessment
StoreInsert ==
    /\ \/ \E row \in NewSymptomRows \ symptom_assessments :
             /\ symptom_assessments \cup {row} \in Tables(SymptomRows)
             /\ symptom_assessments' = symptom_assessments \cup {row}
             /\ UNCHANGED reaction_time_tests
       \/ \E row \in NewReactionRows \ reaction_time_tests :
             /\ reaction_time_tests \cup {row} \in Tables(ReactionRows)
             /\ reaction_time_tests' = reaction_time_tests \cup {row}
             /\ UNCHANGED symptom_assessments
    /\ UNCHANGED << requests, single >>

NextServer ==
    \/ \E r \in RequestIds : ServeBuild(r)
    \/ \E r \in RequestIds : ServeBuildRaises(r)
    \/ \E r \in RequestIds : ServeClassify(r)
    \/ \E r \in RequestIds : ServeSymptoms(r)
    \/ \E r \in RequestIds : ServeSymptomsRaises(r)
    \/ \E r \in RequestIds : ServeReactionTimes(r)
    \/ \E r \in RequestIds : ServeReactionTimesRaises(r)
    \/ \E r \in RequestIds : ServeRespond(r)
    \/ StoreInsert

SpecServer == InitServer /\ [][NextServer]_vars

(***************************************************************************)
(* Properties.                                                             *)
(***************************************************************************)
\* the call has returned from (or been thrown out of) classify_query
ClassifyEnded == pc # "start"

\* the lower-cased question, as line 45 computes it
QuestionLower == Lower(question)

\* q contains one of the strings of the set ks
HasAny(q, ks) == \E k \in ks : Contains(q, k)

Intents ==
    { "average", "maximum", "minimum", "count", "list",
      "compare", "trend", "alert", "summary" }

\* C1: classify_query is total: for every question (the empty one, a single
\* character, one with a date token such as 01/15/2024) it returns without
\* raising, with an intent of the enumeration, non-empty modules, non-empty
\* metrics and a confidence in [0,1].
C1_ClassifyTotal ==
    ClassifyEnded =>
        /\ pc = "classified"
        /\ error = None
        /\ classification # None
        /\ classification[1].intent \in Intents
        /\ classification[1].modules # <<>>
        /\ classification[1].metrics # <<>>
        /\ classification[1].confidence >= 0
        /\ classification[1].confidence <= 100

\* the module was selected and its fetch returned at least one record
FetchedSome(module, data) ==
    /\ InSeq(module, classification[1].modules)
    /\ data # None
    /\ data[1] # <<>>

\* C2: when process_query returns, source_modules is exactly the list of the
\* classification's modules whose fetch returned at least one record,
\* symptom_checklist before reaction_time; a module whose fetch returned no
\* record is not in source_modules and has no sentence in the answer.
C2_SourceModules ==
    pc = "done" =>
        LET sym == FetchedSome("symptom_checklist", symptom_data)
            rt == FetchedSome("reaction_time", reaction_data)
        IN  /\ response[1].source_modules =
                  (IF sym THEN <<"symptom_checklist">> ELSE <<>>)
                  \o (IF rt THEN <<"reaction_time">> ELSE <<>>)
            /\ ~sym => ~Contains(response[1].answer, "symptom assessments")
            /\ ~rt => ~Contains(response[1].answer, "reaction time tests")

\* both modules selected, two symptom records (scores 35 and 78, headache 2
\* and 4) and no reaction-time record: the answer names the symptom module only
C2_Witness ==
    /\ pc = "done"
    /\ classification[1].modules = <<"symptom_checklist", "reaction_time">>
    /\ symptom_data # None /\ Len(symptom_data[1]) = 2
    /\ reaction_data = Some(<<>>)
    /\ response[1].source_modules = <<"symptom_checklist">>
    /\ Contains(response[1].answer, "56.5")
    /\ Contains(response[1].answer, "3.0")

\* C3: fail-fast.  Once a fetch has raised, process_query has raised that very
\* failure, has returned nothing, and the failing fetch is the last call made
\* on the gateway.
C3_FailFast ==
    (\E i \in 1..Len(calls) : calls[i].raised # None) =>
        /\ pc = "raised"
        /\ error = calls[Len(calls)].raised
        /\ response = None
        /\ \A i \in 1..(Len(calls) - 1) : calls[i].raised = None

\* the reaction-time fetch raises after the symptom fetch gave a result
C3_Witness ==
    /\ pc = "raised"
    /\ Len(calls) = 2
    /\ calls[1].raised = None
    /\ calls[2].raised = Some("TimeoutError")
    /\ error = Some("TimeoutError")
    /\ Len(results) = 1
    /\ response = None

\* no fetch of the call returned a record
NothingFetched ==
    /\ symptom_data = None \/ symptom_data = Some(<<>>)
    /\ reaction_data = None \/ reaction_data = Some(<<>>)

\* C4: when every selected module's fetch returns zero records, process_query
\* returns the fixed "couldn't find any data" answer, an empty source_modules
\* list and confidence 0.8, whatever the intent.
C4_NoData ==
    (pc = "done" /\ NothingFetched) =>
        /\ response[1].answer =
              "I couldn't find any data matching your query. Please try with different criteria."
        /\ response[1].source_modules = <<>>
        /\ response[1].confidence = 80

\* an alert question whose fetches all come back empty
C4_Witness ==
    /\ pc = "done"
    /\ NothingFetched
    /\ Len(calls) = 2
    /\ classification[1].intent = "alert"
    /\ Contains(response[1].answer, "couldn't find any data")
    /\ ~Contains(response[1].answer, "clinical attention")

\* the intent the priority rule gives a lower-cased question
C5_Intent(q) ==
    IF HasAny(q, {"average", "avg", "mean"}) THEN "average"
    ELSE IF HasAny(q, {"max", "maximum", "highest", "worst"}) THEN "maximum"
    ELSE IF HasAny(q, {"min", "minimum", "lowest", "best"}) THEN "minimum"
    ELSE IF HasAny(q, {"count", "number", "how many"}) THEN "count"
    ELSE IF HasAny(q, {"list", "show", "display", "who"}) THEN "list"
    ELSE IF HasAny(q, {"compare", "vs"}) THEN "compare"
    ELSE IF HasAny(q, {"trend", "over time"}) THEN "trend"
    ELSE IF HasAny(q, {"alert", "concern"}) THEN "alert"
    ELSE "summary"

\* C5: the intent is the first of average, maximum, minimum, count, list with
\* a keyword in the lower-cased question, and only when there is none compare,
\* else trend, else alert, else summary.
C5_IntentPriority ==
    ClassifyEnded =>
        /\ _determine_intent(QuestionLower) = C5_Intent(QuestionLower)
        /\ classification # None =>
              classification[1].intent = C5_Intent(QuestionLower)

\* an aggregation keyword wins over a secondary pattern of the same question
C5_Witness ==
    /\ pc = "classified"
    /\ Contains(QuestionLower, "vs")
    /\ Contains(QuestionLower, "average")
    /\ classification[1].intent = "average"

C6_Symptom(q) ==
    HasAny(q, {"headache", "nausea", "dizziness", "confusion", "memory",
               "emotional", "symptom", "symptoms", "pain", "score"})

C6_Reaction(q) ==
    HasAny(q, {"reaction", "time", "speed", "cognitive", "response",
               "accuracy", "performance", "test"})

\* C6: the modules list is non-empty, without duplicates and lists
\* symptom_checklist before reaction_time; it is both modules when the
\* lower-cased question has no keyword of either, and otherwise holds a module
\* exactly when one of that module's keywords occurs.
C6_Modules ==
    ClassifyEnded =>
        LET m == DetectModules(QuestionLower)
            sym == C6_Symptom(QuestionLower)
            rt == C6_Reaction(QuestionLower)
        IN  /\ m \in { <<"symptom_checklist">>, <<"reaction_time">>,
                       <<"symptom_checklist", "reaction_time">> }
            /\ (~sym /\ ~rt) => m = <<"symptom_checklist", "reaction_time">>
            /\ (sym \/ rt) => /\ InSeq("symptom_checklist", m) <=> sym
                              /\ InSeq("reaction_time", m) <=> rt
            /\ classification # None => classification[1].modules = m

\* a question without any module keyword gets both modules
C6_Witness ==
    /\ pc = "classified"
    /\ ~C6_Symptom(QuestionLower)
    /\ ~C6_Reaction(QuestionLower)
    /\ classification[1].modules = <<"symptom_checklist", "reaction_time">>

\* C7: "Tell me about the team performance" is a generic question: both
\* modules are selected and the metrics contain total_symptom_score,
\* headache_severity and average_reaction_time.
C7_GenericQuestion ==
    (ClassifyEnded /\ question = "Tell me about the team performance") =>
        /\ classification # None
        /\ Len(classification[1].modules) = 2
        /\ InSeq("symptom_checklist", classification[1].modules)
        /\ InSeq("reaction_time", classification[1].modules)
        /\ InSeq("total_symptom_score", classification[1].metrics)
        /\ InSeq("headache_severity", classification[1].metrics)
        /\ InSeq("average_reaction_time", classification[1].metrics)

\* the metrics the rules give a lower-cased question and its modules
C8_Metrics(q, modules) ==
    LET head == IF Contains(q, "headache") THEN <<"headache_severity">> ELSE <<>>
        total == IF Contains(q, "total") /\ Contains(q, "score")
                 THEN <<"total_symptom_score">> ELSE <<>>
        sym == IF ~InSeq("symptom_checklist", modules) THEN <<>>
               ELSE IF head \o total = <<>>
               THEN <<"total_symptom_score", "headache_severity">>
               ELSE head \o total
        acc == IF Contains(q, "accuracy") THEN <<"accuracy_percentage">> ELSE <<>>
        sofar == sym \o acc
        avg == IF \/ Contains(q, "reaction") /\ Contains(q, "time")
                  \/ ~(\E i \in 1..Len(sofar) : Contains(sofar[i], "reaction"))
               THEN <<"average_reaction_time">> ELSE <<>>
    IN  IF InSeq("reaction_time", modules) THEN sofar \o avg ELSE sym

\* C8: the metrics are the symptom metrics (headache_severity, then
\* total_symptom_score, both as the default) followed by the reaction-time
\* metrics (accuracy_percentage, then average_reaction_time), and every
\* selected module contributes at least one metric.
C8_MetricsRule ==
    ClassifyEnded =>
        LET m == DetectModules(QuestionLower)
            metrics == _extract_metrics(QuestionLower, m)
        IN  /\ metrics = C8_Metrics(QuestionLower, m)
            /\ InSeq("symptom_checklist", m) =>
                  \/ InSeq("total_symptom_score", metrics)
                  \/ InSeq("headache_severity", metrics)
            /\ InSeq("reaction_time", m) =>
                  \/ InSeq("accuracy_percentage", metrics)
                  \/ InSeq("average_reaction_time", metrics)
            /\ classification # None => classification[1].metrics = metrics

\* "total" and "score" and "accuracy" occur, "reaction" does not
C8_Witness ==
    /\ pc = "classified"
    /\ ~Contains(QuestionLower, "reaction")
    /\ classification[1].metrics =
          <<"total_symptom_score", "accuracy_percentage", "average_reaction_time">>

\* C9: for a question with a team token (LSU, Tigers or two capitalized
\* words) classify_query returns filters whose team is the first such token as
\* written in the question.
C9_TeamFilter ==
    (ClassifyEnded /\ FindAllTeams(question, 1) # <<>>) =>
        /\ classification # None
        /\ classification[1].filters.team = Some(FindAllTeams(question, 1)[1])

\* C10: every fetch of process_query gets the same scope: the team_id hint
\* when one is given, else the team of the classification's filters, else no
\* team; the start and end of the window resolved from the classification's
\* time range; and never a patient.
C10_FetchScope ==
    \A i \in 1..Len(calls) :
        /\ calls[i].patient_id = None
        /\ calls[i].team_id =
              (IF team_id # None /\ team_id[1] # "" THEN team_id
               ELSE IF classification[1].filters.team # None
               THEN classification[1].filters.team
               ELSE None)
        /\ \E now \in Clock :
              LET window == _convert_time_range(classification[1].time_range, now)
              IN  /\ calls[i].date_from = window.start
                  /\ calls[i].date_to = window.end
        /\ calls[i].date_from = calls[1].date_from
        /\ calls[i].date_to = calls[1].date_to

\* two fetches with a team hint and a resolved window
C10_Witness ==
    /\ Len(calls) = 2
    /\ team_id = Some("LSU_TIGERS")
    /\ calls[2].team_id = Some("LSU_TIGERS")
    /\ calls[2].date_from # None
    /\ calls[2].date_to # None

\* the first period, in the order last_week, last_month, last_30_days, today,
\* yesterday, one of whose alias phrases occurs in q; "" when none does
C11_Period(q) ==
    IF HasAny(q, {"last week", "past week"}) THEN "last_week"
    ELSE IF HasAny(q, {"last month", "past month"}) THEN "last_month"
    ELSE IF HasAny(q, {"last 30 days", "past 30 days"}) THEN "last_30_days"
    ELSE IF HasAny(q, {"today", "today's"}) THEN "today"
    ELSE IF HasAny(q, {"yesterday"}) THEN "yesterday"
    ELSE ""

\* C11: the time range of classify_query(q) is {period: p} for the first
\* period p, in table order, with an alias phrase in the lower-cased q,
\* whether or not q also holds a date token; with no alias and no date token
\* the time range is absent.
C11_TimeRange ==
    ClassifyEnded =>
        LET p == C11_Period(QuestionLower)
        IN  /\ p # "" =>
                  /\ pc = "classified"
                  /\ classification[1].time_range # None
                  /\ classification[1].time_range[1].keys = {"period"}
                  /\ classification[1].time_range[1].period = p
            /\ (p = "" /\ FindAllDates(QuestionLower, 1) = <<>>) =>
                  /\ pc = "classified"
                  /\ classification[1].time_range = None

\* a question with a period alias and a date token is classified by its period
C11_Witness ==
    /\ pc = "classified"
    /\ Contains(QuestionLower, "last week")
    /\ FindAllDates(QuestionLower, 1) # <<>>
    /\ classification[1].time_range[1].period = "last_week"

\* C12: for a question with one or more date tokens and no period alias,
\* classify_query returns a classification whose time range is
\* {custom_dates: L}, L being the (month, day, year) triples of the date
\* tokens in order of appearance.
C12_CustomDates ==
    (/\ ClassifyEnded
     /\ C11_Period(QuestionLower) = ""
     /\ FindAllDates(QuestionLower, 1) # <<>>) =>
        /\ pc = "classified"
        /\ classification # None
        /\ classification[1].time_range # None
        /\ classification[1].time_range[1].keys = {"custom_dates"}
        /\ classification[1].time_range[1].custom_dates =
              FindAllDates(QuestionLower, 1)

\* the min_severity the claim gives for the lower-cased question q
C13_Severity(q) ==
    IF Contains(q, "severe") THEN Some(4)
    ELSE IF Contains(q, "moderate") /\ ~Contains(q, "severe") THEN Some(2)
    ELSE None

\* C13: min_severity is 4 when "severe" occurs in the lower-cased question
\* (with or without "moderate"), 2 when "moderate" occurs and "severe" does
\* not, absent otherwise, and never another value.
C13_MinSeverity ==
    ClassifyEnded =>
        /\ _extract_filters(QuestionLower).min_severity = C13_Severity(QuestionLower)
        /\ _extract_filters(QuestionLower).min_severity \in {None, Some(2), Some(4)}
        /\ classification # None =>
              classification[1].filters.min_severity = C13_Severity(QuestionLower)

\* "moderate" and "severe" both occur and the filter is 4
C13_Witness ==
    /\ pc = "classified"
    /\ Contains(QuestionLower, "moderate")
    /\ Contains(QuestionLower, "severe")
    /\ classification[1].filters.min_severity = Some(4)

\* _convert_time_range was called on its own and has returned
ConvertReturned == unit_call.op = "_convert_time_range" /\ returned # None

\* the time range of the call is {period: p}
IsPeriod(tr, p) == tr # None /\ tr[1].keys = {"period"} /\ tr[1].period = p

\* w is the window from n days before one clock reading to that same reading
DaysBack(w, n) ==
    \E now \in CallClock :
        w = [start |-> Some([now EXCEPT !.day = @ - n]), end |-> Some(now)]

\* C14: _convert_time_range maps an absent time range to (null, null),
\* last_week to (now - 7 days, now), last_month and last_30_days to
\* (now - 30 days, now), a custom_dates token or an unrecognised period to
\* (null, null); start and end come from one single clock reading.
C14_Window ==
    ConvertReturned =>
        LET tr == unit_call.time_range
            w == returned[1]
        IN  /\ tr = None => w = [start |-> None, end |-> None]
            /\ IsPeriod(tr, "last_week") => DaysBack(w, 7)
            /\ IsPeriod(tr, "last_month") => DaysBack(w, 30)
            /\ IsPeriod(tr, "last_30_days") => DaysBack(w, 30)
            /\ (tr # None /\ "custom_dates" \in tr[1].keys) =>
                  w = [start |-> None, end |-> None]
            /\ (tr # None /\ tr[1].keys = {"period"}
                 /\ tr[1].period \notin { "last_week", "last_month", "last_30_days",
                                          "today", "yesterday" }) =>
                  w = [start |-> None, end |-> None]

\* {period: last_month} converted at a reading with a sub-second part
C14_Witness ==
    /\ ConvertReturned
    /\ IsPeriod(unit_call.time_range, "last_month")
    /\ returned[1].end = Some(Dt(100, 14, 30, 15, 250000))
    /\ returned[1].start = Some(Dt(70, 14, 30, 15, 250000))

\* midnight of the day of dt
Midnight(dt) == Dt(dt.day, 0, 0, 0, 0)

\* C15: for every clock reading now, also one with a sub-second part,
\* {period: today} gives start = exactly midnight (00:00:00.000000) of now's
\* date and end = now, and {period: yesterday} gives start = exactly midnight
\* of the previous day and end = exactly 23:59:59 of the previous day.
C15_DayWindows ==
    ConvertReturned =>
        LET tr == unit_call.time_range
            w == returned[1]
        IN  /\ IsPeriod(tr, "today") =>
                  \E now \in CallClock :
                      w = [start |-> Some(Midnight(now)), end |-> Some(now)]
            /\ IsPeriod(tr, "yesterday") =>
                  \E now \in CallClock :
                      w = [start |-> Some(Dt(now.day - 1, 0, 0, 0, 0)),
                           end |-> Some(Dt(now.day - 1, 23, 59, 59, 0))]

\* data[1][field] + ... + data[n][field]
RECURSIVE Total(_, _, _)
Total(data, field, n) ==
    IF n = 0 THEN 0 ELSE Total(data, field, n - 1) + data[n][field]

\* the fraction f is the mean of field over the records of data
IsMean(f, data, field) ==
    f.den > 0 /\ f.num * Len(data) = Total(data, field, Len(data)) * f.den

\* the fraction f is the whole number v
IsWhole(f, v) == f.den > 0 /\ f.num = v * f.den

\* the fraction f is the largest / the smallest value of field in data
IsLargest(f, data, field) ==
    /\ \E i \in 1..Len(data) : IsWhole(f, data[i][field])
    /\ \A i \in 1..Len(data) : data[i][field] * f.den <= f.num

IsSmallest(f, data, field) ==
    /\ \E i \in 1..Len(data) : IsWhole(f, data[i][field])
    /\ \A i \in 1..Len(data) : data[i][field] * f.den >= f.num

\* the number of distinct patient_id values of data
Patients(data) == Cardinality({ data[i].patient_id : i \in 1..Len(data) })

\* C16: calculate_symptom_metrics returns an empty mapping for an empty list,
\* and for a non-empty list of n symptom records the mean total symptom
\* score, the mean headache severity, the largest total symptom score, the
\* number of distinct patients and n.
C16_SymptomMetrics ==
    (unit_call.op = "calculate_symptom_metrics" /\ returned # None) =>
        LET data == unit_call.data
            m == returned[1]
        IN  /\ data = <<>> => DOMAIN m = {}
            /\ data # <<>> =>
                  /\ DOMAIN m = { "avg_total_symptom_score", "max_total_symptom_score",
                                  "avg_headache_severity", "patient_count",
                                  "assessment_count" }
                  /\ IsMean(m["avg_total_symptom_score"], data, "total_symptom_score")
                  /\ IsMean(m["avg_headache_severity"], data, "headache_severity")
                  /\ IsLargest(m["max_total_symptom_score"], data, "total_symptom_score")
                  /\ IsWhole(m["patient_count"], Patients(data))
                  /\ IsWhole(m["assessment_count"], Len(data))

\* the three records of test_calculate_symptom_metrics: two of one patient
C16_Witness ==
    /\ unit_call.op = "calculate_symptom_metrics"
    /\ returned # None
    /\ Len(unit_call.data) = 3
    /\ Total(unit_call.data, "total_symptom_score", 3) = 128
    /\ returned[1]["avg_total_symptom_score"] = [num |-> 128, den |-> 3]
    /\ returned[1]["max_total_symptom_score"] = [num |-> 78, den |-> 1]
    /\ returned[1]["patient_count"] = [num |-> 2, den |-> 1]

\* C17: calculate_reaction_time_metrics returns an empty mapping for an empty
\* list, and for a non-empty list the mean, largest and smallest
\* average_reaction_time, the mean accuracy_percentage, the number of
\* distinct patients and the number of records.
C17_ReactionMetrics ==
    (unit_call.op = "calculate_reaction_time_metrics" /\ returned # None) =>
        LET data == unit_call.data
            m == returned[1]
        IN  /\ data = <<>> => DOMAIN m = {}
            /\ data # <<>> =>
                  /\ DOMAIN m = { "avg_reaction_time", "max_reaction_time",
                                  "min_reaction_time", "avg_accuracy",
                                  "patient_count", "test_count" }
                  /\ IsMean(m["avg_reaction_time"], data, "average_reaction_time")
                  /\ IsLargest(m["max_reaction_time"], data, "average_reaction_time")
                  /\ IsSmallest(m["min_reaction_time"], data, "average_reaction_time")
                  /\ IsMean(m["avg_accuracy"], data, "accuracy_percentage")
                  /\ IsWhole(m["patient_count"], Patients(data))
                  /\ IsWhole(m["test_count"], Len(data))

\* three records of two patients with different reaction times
C17_Witness ==
    /\ unit_call.op = "calculate_reaction_time_metrics"
    /\ returned # None
    /\ Len(unit_call.data) = 3
    /\ returned[1]["max_reaction_time"] = [num |-> 298, den |-> 1]
    /\ returned[1]["min_reaction_time"] = [num |-> 234, den |-> 1]
    /\ returned[1]["avg_accuracy"] = [num |-> 274, den |-> 3]
    /\ returned[1]["patient_count"] = [num |-> 2, den |-> 1]

\* _generate_response was called on its own and has returned
ResponseReturned == unit_call.op = "_generate_response" /\ returned # None

\* the value of key in the metrics map m, 0 when the key is missing
FieldOrZero(m, key) == IF key \in DOMAIN m THEN m[key] ELSE [num |-> 0, den |-> 1]

\* the integer nearest to f * scale for a fraction f >= 0 (of two equally
\* near integers, the even one)
Nearest(f, scale) ==
    LET x == f.num * scale
        lo == x \div f.den
    IN  CHOOSE t \in {lo, lo + 1} :
            LET dist == IF t * f.den >= x THEN t * f.den - x ELSE x - t * f.den
                other == IF t = lo THEN lo + 1 ELSE lo
                odist == IF other * f.den >= x THEN other * f.den - x
                         ELSE x - other * f.den
            IN  dist < odist \/ (dist = odist /\ t % 2 = 0)

\* f printed to one decimal / to zero decimals
OneDecimal(f) ==
    ToString(Nearest(f, 10) \div 10) \o "." \o ToString(Nearest(f, 10) % 10)

ZeroDecimals(f) == ToString(Nearest(f, 1))

\* the sentence the claim describes for one result
C18_Sentence(r) ==
    IF r.module = "symptom_checklist"
    THEN "Based on " \o ToString(r.count)
         \o " symptom assessments, the average total symptom score is "
         \o OneDecimal(FieldOrZero(r.data, "avg_total_symptom_score"))
         \o ". Average headache severity is "
         \o OneDecimal(FieldOrZero(r.data, "avg_headache_severity"))
         \o " out of 6."
    ELSE "Based on " \o ToString(r.count)
         \o " reaction time tests, the average reaction time is "
         \o ZeroDecimals(FieldOrZero(r.data, "avg_reaction_time"))
         \o "ms with an average accuracy of "
         \o OneDecimal(FieldOrZero(r.data, "avg_accuracy"))
         \o "%."

\* the sentences of results[1..n], in list order, a single space in between
RECURSIVE C18_Sentences(_, _)
C18_Sentences(rs, n) ==
    IF n = 0 THEN ""
    ELSE IF n = 1 THEN C18_Sentence(rs[1])
    ELSE C18_Sentences(rs, n - 1) \o " " \o C18_Sentence(rs[n])

\* answer starts with prefix
StartsWith(answer, prefix) ==
    Len(answer) >= Len(prefix) /\ SubSeq(answer, 1, Len(prefix)) = prefix

\* answer ends with suffix
EndsWith(answer, suffix) ==
    /\ Len(answer) >= Len(suffix)
    /\ SubSeq(answer, Len(answer) - Len(suffix) + 1, Len(answer)) = suffix

\* C18: for a non-empty result list the answer is made of one sentence per
\* result, in list order, joined by single spaces; the symptom sentence holds
\* the count and the two averages to one decimal, the reaction-time sentence
\* the count, the reaction time to zero decimals and the accuracy to one
\* decimal; a missing field is printed as 0 (0.0) and the call returns.
C18_Sentences_InOrder ==
    (unit_call.op = "_generate_response" /\ unit_call.results # <<>>) =>
        /\ ENABLED GenerateResponseCall \/ returned # None
        /\ returned # None =>
              LET body == C18_Sentences(unit_call.results, Len(unit_call.results))
              IN  /\ StartsWith(returned[1], body)
                  /\ unit_call.classification.intent # "alert" => returned[1] = body

\* a symptom result without its headache average, then a reaction-time result
C18_Witness ==
    /\ ResponseReturned
    /\ Len(unit_call.results) = 2
    /\ unit_call.results[1].module = "symptom_checklist"
    /\ "avg_headache_severity" \notin DOMAIN unit_call.results[1].data
    /\ unit_call.results[2].module = "reaction_time"
    /\ returned[1] =
          "Based on 10 symptom assessments, the average total symptom score is 35.0. "
          \o "Average headache severity is 0.0 out of 6. "
          \o "Based on 8 reaction time tests, the average reaction time is 272ms "
          \o "with an average accuracy of 89.0%."

\* C19: the answer ends with the clinical-caution addendum, after the module
\* sentences and a double line-break, exactly when the intent is alert and
\* the result list is non-empty; otherwise the addendum is not in the answer.
C19_Addendum ==
    ResponseReturned =>
        LET rs == unit_call.results
            alert == unit_call.classification.intent = "alert" /\ rs # <<>>
            caution == "This data may require clinical attention if values "
                       \o "are significantly elevated from baseline."
        IN  /\ alert =>
                  /\ EndsWith(returned[1], "\n\n" \o caution)
                  /\ StartsWith(returned[1], C18_Sentences(rs, Len(rs)))
                  /\ Len(returned[1]) > Len(C18_Sentences(rs, Len(rs)))
            /\ ~alert => ~Contains(returned[1], "clinical attention")

\* intent alert with one result: sentence and addendum
C19_Witness ==
    /\ ResponseReturned
    /\ unit_call.classification.intent = "alert"
    /\ Len(unit_call.results) = 1
    /\ Contains(returned[1], "out of 6. \n\nThis data may require clinical attention")

\* get_s3_assessment_data was called on its own and the call has ended
S3Ended == unit_call.op = "get_s3_assessment_data" /\ returned # None

\* the key of the blob of the patient and module of the call
C20_Key ==
    "assessments/" \o unit_call.patient_id \o "/" \o unit_call.assessment_type
    \o "/latest.json"

\* the read, the decoding and the parsing of that blob all succeed
C20_Succeeds ==
    /\ unit_call.fault = None
    /\ C20_Key \in DOMAIN unit_call.s3
    /\ unit_call.s3[C20_Key].utf8
    /\ JsonLoads(unit_call.s3[C20_Key].text) # None

\* C20: get_s3_assessment_data never raises; when the blob read, the decoding
\* or the JSON parsing fails it returns an empty document, and when they
\* succeed it returns the parsed document stored for that patient and module.
C20_DegradeToEmpty ==
    S3Ended =>
        /\ returned[1].raised = None
        /\ ~C20_Succeeds => returned[1].value = {}
        /\ C20_Succeeds =>
              returned[1].value = JsonLoads(unit_call.s3[C20_Key].text)[1]

\* a blob that is not valid UTF-8, next to a readable one under another key
C20_Witness ==
    /\ S3Ended
    /\ unit_call.fault = None
    /\ C20_Key \in DOMAIN unit_call.s3
    /\ ~unit_call.s3[C20_Key].utf8
    /\ \E k \in DOMAIN unit_call.s3 :
          k # C20_Key /\ JsonLoads(unit_call.s3[k].text) = Some({ <<"trials", "12">> })
    /\ returned[1] = [raised |-> None, value |-> {}]

\* the request r has been answered
Answered(r) == requests[r].pc = "responded"

\* C21: the query endpoint answers a request with one of two shapes: status
\* 200 with answer, confidence, source_modules and metadata copied from the
\* processor's result when building the processor and process_query both
\* succeed; status 500 with a detail starting "Query processing failed" when
\* either raises.  process_query gets the request's question and team_id
\* and nothing else.
C21_TwoShapes ==
    \A r \in RequestIds :
        LET req == requests[r]
        IN  /\ Answered(r) =>
                  /\ req.http # None
                  /\ req.raised = None =>
                        /\ req.result # None
                        /\ req.http[1].status = 200
                        /\ req.http[1].detail = None
                        /\ req.http[1].body # None
                        /\ req.http[1].body[1].answer = req.result[1].answer
                        /\ req.http[1].body[1].confidence = req.result[1].confidence
                        /\ req.http[1].body[1].source_modules =
                              req.result[1].source_modules
                        /\ req.http[1].body[1].metadata = Some(req.result[1].metadata)
                  /\ req.raised # None =>
                        /\ req.http[1].status = 500
                        /\ req.http[1].body = None
                        /\ req.http[1].detail # None
                        /\ StartsWith(req.http[1].detail[1], "Query processing failed")
            /\ req.forwarded # None =>
                  /\ DOMAIN req.forwarded[1] = {"question", "team_id"}
                  /\ req.forwarded[1].question = req.request.question
                  /\ req.forwarded[1].team_id = req.request.team_id

\* one request answered 200 with its team_id forwarded, the other 500
C21_Witness ==
    /\ Answered("r1")
    /\ requests["r1"].http[1].status = 200
    /\ requests["r1"].forwarded[1].team_id = Some("LSU_TIGERS")
    /\ requests["r1"].http[1].body[1].source_modules = <<"symptom_checklist">>
    /\ Answered("r2")
    /\ requests["r2"].http[1].status = 500

\* the request r failed inside process_query
FailedInCore(r) ==
    Answered(r) /\ requests[r].raised # None /\ requests[r].forwarded # None

\* C22: the error response does not leak the exception text: any two
\* requests that fail inside the core, also with exceptions of different
\* messages, get identical error bodies.
C22_StableError ==
    \A a, b \in RequestIds :
        (FailedInCore(a) /\ FailedInCore(b)) => requests[a].http = requests[b].http

\* the dict process_query returns when the request of req runs alone on a
\* store holding the tables req read, at the clock reading req took
RunAlone(req) ==
    LET c == classify_query(req.request.question)
        window == IF req.now = None THEN [start |-> None, end |-> None]
                  ELSE _convert_time_range(c.time_range, req.now[1])
        team == IF TruthyStr(req.request.team_id) THEN req.request.team_id
                ELSE c.filters.team
        s == IF req.seen_symptoms = None THEN <<>>
             ELSE get_symptom_data(req.seen_symptoms[1], None, team,
                                   window.start, window.end)
        t == IF req.seen_reactions = None THEN <<>>
             ELSE get_reaction_time_data(req.seen_reactions[1], None, team,
                                         window.start, window.end)
        rs == (IF s = <<>> THEN <<>>
               ELSE << [module |-> "symptom_checklist",
                        data |-> calculate_symptom_metrics(s), count |-> Len(s)] >>)
              \o (IF t = <<>> THEN <<>>
                  ELSE << [module |-> "reaction_time",
                           data |-> calculate_reaction_time_metrics(t),
                           count |-> Len(t)] >>)
    IN  [answer |-> _generate_response(c, rs),
         confidence |-> c.confidence,
         source_modules |-> ModulesOf(rs),
         metadata |-> [classification |-> c, results |-> rs, query_type |-> c.intent]]

\* every answer is the answer of the request run alone
AnswersAsAlone ==
    \A r \in RequestIds :
        (Answered(r) /\ requests[r].raised = None) =>
            /\ requests[r].result = Some(RunAlone(requests[r]))
            /\ requests[r].http[1].body[1].answer = RunAlone(requests[r]).answer

\* a step of one request leaves the other requests and the store alone
StepsAreLocal ==
    \A r \in RequestIds :
        requests'[r] # requests[r] =>
            /\ \A o \in RequestIds \ {r} : requests'[o] = requests[o]
            /\ symptom_assessments' = symptom_assessments
            /\ reaction_time_tests' = reaction_time_tests

\* C23: concurrent requests are independent and nothing is cached: in every
\* interleaving each response equals the response of the same request run
\* alone on the store contents its fetches read; no request changes the
\* state of another request or the store; a later identical request
\* answers from the store as it is then.
C23_Independent == []AnswersAsAlone /\ [][StepsAreLocal]_vars

\* two identical requests answered differently: an assessment was stored
\* between their fetches
C23_Witness ==
    /\ requests["r1"].request = requests["r2"].request
    /\ Answered("r1") /\ Answered("r2")
    /\ requests["r1"].raised = None /\ requests["r2"].raised = None
    /\ requests["r1"].seen_symptoms # requests["r2"].seen_symptoms
    /\ requests["r1"].http[1].body[1].answer # requests["r2"].http[1].body[1].answer

\* C24: constructing a ReactionTimeData record succeeds exactly when its
\* average, best and worst reaction times are all >= 0,
\* 0 <= successful_attempts <= total_attempts and accuracy_percentage is in
\* [0, 100]; otherwise a validation error is raised.
C24_ReactionTimeValidation ==
    (unit_call.op = "ReactionTimeData" /\ returned # None) =>
        (returned[1].valid <=>
            /\ unit_call.average_reaction_time >= 0
            /\ unit_call.best_reaction_time >= 0
            /\ unit_call.worst_reaction_time >= 0
            /\ 0 <= unit_call.successful_attempts
            /\ unit_call.successful_attempts <= unit_call.total_attempts
            /\ unit_call.accuracy_percentage >= 0
            /\ unit_call.accuracy_percentage <= 100)

\* C25: only validated records reach the aggregators: every record
\* process_query hands to calculate_symptom_metrics or
\* calculate_reaction_time_metrics is within the declared ranges (severities
\* 0-6, total score 0-132, accuracy 0-100, reaction times >= 0), the gateway
\* rejecting a stored row outside them.
C25_ValidatedRecords ==
    /\ symptom_data # None =>
          \A i \in 1..Len(symptom_data[1]) :
              /\ symptom_data[1][i].headache_severity \in 0..6
              /\ symptom_data[1][i].total_symptom_score \in 0..132
    /\ reaction_data # None =>
          \A i \in 1..Len(reaction_data[1]) :
              /\ reaction_data[1][i].accuracy_percentage \in 0..100
              /\ reaction_data[1][i].average_reaction_time >= 0

\* every symptom fetch made so far has raised
SymptomFetchAlwaysRaises ==
    \A i \in 1..Len(calls) :
        calls[i].op = "get_symptom_data" => calls[i].raised # None

\* C26: with a gateway whose symptom-data fetch raises on every call,
\* process_query("Test query") raises: it never returns.
C26_TestQueryRaises ==
    (question = "Test query" /\ SymptomFetchAlwaysRaises) =>
        /\ pc # "done"
        /\ response = None

\* the position of a step in the body of process_query
StepRank(p) ==
    CASE p = "start" -> 0
      [] p = "classified" -> 1
      [] p = "converted" -> 2
      [] p = "symptom_done" -> 3
      [] p = "reaction_done" -> 4
      [] p = "done" -> 5
      [] p = "raised" -> 6

\* the module a gateway fetch serves
ModuleOfFetch(op) ==
    CASE op = "get_symptom_data" -> "symptom_checklist"
      [] op = "get_reaction_time_data" -> "reaction_time"
      [] OTHER -> "none"

\* the records a module's fetch returned, None when it has not returned
FetchedFor(module) ==
    IF module = "symptom_checklist" THEN symptom_data ELSE reaction_data

\* what one run has done so far is in the order of the steps
OrderedSoFar ==
    /\ classification = None =>
          date_range = NoWindow /\ calls = <<>> /\ results = <<>> /\ response = None
    /\ Len(calls) <= 2
    /\ \A i, j \in 1..Len(calls) : i # j => calls[i].op # calls[j].op
    /\ \A i \in 1..Len(calls) :
          /\ calls[i].op \in {"get_symptom_data", "get_reaction_time_data"}
          /\ \E k \in 1..Len(classification[1].modules) :
                classification[1].modules[k] = ModuleOfFetch(calls[i].op)
          /\ calls[i].date_from = date_range.start
          /\ calls[i].date_to = date_range.end
          /\ calls[i].op = "get_symptom_data" => i = 1
    /\ \A n \in 1..Len(results) :
          /\ \E i \in 1..Len(calls) :
                /\ ModuleOfFetch(calls[i].op) = results[n].module
                /\ calls[i].raised = None
          /\ FetchedFor(results[n].module) # None
          /\ Len(FetchedFor(results[n].module)[1]) >= 1
    /\ response # None =>
          \A k \in 1..Len(classification[1].modules) :
              \E i \in 1..Len(calls) :
                  /\ ModuleOfFetch(calls[i].op) = classification[1].modules[k]
                  /\ calls[i].raised = None

\* each step comes at its place and writes nothing to the store
StepInOrder ==
    /\ store' = store
    /\ pc' # pc => StepRank(pc') > StepRank(pc)
    /\ classification' # classification => pc = "start"
    /\ date_range' # date_range => pc = "classified"
    /\ calls' # calls =>
          /\ Len(calls') = Len(calls) + 1
          /\ SubSeq(calls', 1, Len(calls)) = calls
          /\ calls'[Len(calls')].op = "get_symptom_data" => pc = "converted"
          /\ calls'[Len(calls')].op = "get_reaction_time_data" => pc = "symptom_done"
    /\ results' # results =>
          /\ Len(results') = Len(results) + 1
          /\ calls' # calls
          /\ ModuleOfFetch(calls'[Len(calls')].op) = results'[Len(results')].module
    /\ response' # response => pc = "reaction_done"

\* C27: within one run of process_query the steps are strictly ordered:
\* classification, window resolution, the symptom fetch if selected, the
\* reaction-time fetch if selected, synthesis; each fetch happens at most once
\* and only for a selected module, an aggregate exists only for a fetch that
\* returned at least one record, and the store is never written.
C27_StepOrder == []OrderedSoFar /\ [][StepInOrder]_vars

\* both modules fetched in order, both aggregated, the answer built
C27_Witness ==
    /\ pc = "done"
    /\ Len(calls) = 2
    /\ calls[1].op = "get_symptom_data"
    /\ calls[2].op = "get_reaction_time_data"
    /\ Len(results) = 2
    /\ date_range # NoWindow
    /\ response # None

\* the request has gone through process_query and process_query returned
Returned(r) == requests[r].pc = "responded" /\ requests[r].result # None

\* two calls that ran on the same tables at the same clock reading with the
\* same team hint and whose classifications agree on the modules, the time
\* range, the extracted team and on being an alert
AgreeOnWhatCounts(a, b) ==
    LET ca == requests[a].classification[1]
        cb == requests[b].classification[1]
    IN  /\ requests[a].forwarded[1].team_id = requests[b].forwarded[1].team_id
        /\ requests[a].seen_symptoms = requests[b].seen_symptoms
        /\ requests[a].seen_reactions = requests[b].seen_reactions
        /\ requests[a].now = requests[b].now
        /\ ca.modules = cb.modules
        /\ ca.time_range = cb.time_range
        /\ ca.filters.team = cb.filters.team
        /\ (ca.intent = "alert") <=> (cb.intent = "alert")

\* C28: the answer and the source_modules of process_query do not depend on
\* the user_id, the metrics, the min_severity filter or the intent beyond its
\* being alert: two calls on the same store with the same team hint whose
\* classifications agree on modules, time range, team and alert-ness return
\* the same answer and the same source_modules.
C28_NonInterference ==
    \A a, b \in RequestIds :
        (Returned(a) /\ Returned(b) /\ AgreeOnWhatCounts(a, b)) =>
            /\ requests[a].result[1].answer = requests[b].result[1].answer
            /\ requests[a].result[1].source_modules =
                  requests[b].result[1].source_modules

\* two calls differing in user_id, intent, metrics and min_severity that both
\* report the one symptom record
C28_Witness ==
    /\ Returned("r1") /\ Returned("r2") /\ AgreeOnWhatCounts("r1", "r2")
    /\ requests["r1"].request.user_id # requests["r2"].request.user_id
    /\ requests["r1"].classification[1].intent = "average"
    /\ requests["r2"].classification[1].intent = "list"
    /\ requests["r1"].classification[1].metrics # requests["r2"].classification[1].metrics
    /\ requests["r1"].classification[1].filters.min_severity = None
    /\ requests["r2"].classification[1].filters.min_severity = Some(4)
    /\ requests["r1"].result[1].source_modules = <<"symptom_checklist">>
    /\ requests["r1"].result[1].answer = requests["r2"].result[1].answer

\* the fraction f is at most the fraction g
FracLeq(f, g) == f.num * g.den <= g.num * f.den

\* the count of each entry of the result list is the record count of its metrics
ResultCountsAgree ==
    \A n \in 1..Len(results) :
        LET r == results[n]
        IN  /\ r.module = "symptom_checklist" =>
                  IsWhole(r.data["assessment_count"], r.count)
            /\ r.module = "reaction_time" => IsWhole(r.data["test_count"], r.count)

\* C29: for every non-empty record list the aggregates are consistent:
\* 1 <= patient_count <= record count, min_reaction_time <= avg_reaction_time
\* <= max_reaction_time, avg_total_symptom_score <= max_total_symptom_score,
\* and the count of each entry of process_query's result list equals the
\* record count inside the entry's metrics.
C29_ConsistentAggregates ==
    /\ ResultCountsAgree
    /\ (returned # None /\ unit_call.op = "calculate_symptom_metrics"
          /\ unit_call.data # <<>>) =>
          LET m == returned[1]
          IN  /\ FracLeq(Whole(1), m["patient_count"])
              /\ FracLeq(m["patient_count"], Whole(Len(unit_call.data)))
              /\ FracLeq(m["avg_total_symptom_score"], m["max_total_symptom_score"])
    /\ (returned # None /\ unit_call.op = "calculate_reaction_time_metrics"
          /\ unit_call.data # <<>>) =>
          LET m == returned[1]
          IN  /\ FracLeq(Whole(1), m["patient_count"])
              /\ FracLeq(m["patient_count"], Whole(Len(unit_call.data)))
              /\ FracLeq(m["min_reaction_time"], m["avg_reaction_time"])
              /\ FracLeq(m["avg_reaction_time"], m["max_reaction_time"])
    /\ (returned # None /\ unit_call.op = "reaction_time_aggregates") =>
          LET m == returned[1]
          IN  /\ FloatLeq(m.min_reaction_time, m.avg_reaction_time)
              /\ FloatLeq(m.avg_reaction_time, m.max_reaction_time)

\* the same with the float records left aside: whole-number records only
C29_WholeNumberRecords ==
    (unit_call.op # "reaction_time_aggregates") => C29_ConsistentAggregates

\* the seconds from day 0 to dt, its microseconds left aside
SecondsOf(dt) == ((dt.day * 24 + dt.hour) * 60 + dt.minute) * 60 + dt.second

\* the instant a is not after the instant b
NotAfter(a, b) ==
    \/ SecondsOf(a) < SecondsOf(b)
    \/ SecondsOf(a) = SecondsOf(b) /\ a.microsecond <= b.microsecond

\* C30: every window _convert_time_range returns is well-formed: start is
\* null exactly when end is null, and when both are present start <= end,
\* whatever the time-range token and the clock reading.
C30_WellFormedWindow ==
    ConvertReturned =>
        LET w == returned[1]
        IN  /\ (w.start = None) <=> (w.end = None)
            /\ (w.start # None /\ w.end # None) => NotAfter(w.start[1], w.end[1])

\* {period: today} converted at midnight sharp: start and end coincide
C30_Witness ==
    /\ ConvertReturned
    /\ IsPeriod(unit_call.time_range, "today")
    /\ returned[1].start = Some(Dt(100, 0, 0, 0, 0))
    /\ returned[1].end = Some(Dt(100, 0, 0, 0, 0))

====
